---- MODULE Spec2Model ----
(***************************************************************************)
(* Mid Valyrian: the tree-walking evaluator of src/src/interpreter.rs over *)
(* the AST of src/src/ast.rs, and the lowering of src/src/parser.rs from   *)
(* a parse tree to that AST.                                               *)
(*                                                                         *)
(* The recursive evaluator (interpret / execute_statement /               *)
(* evaluate_expression / call_function) is modelled as an abstract machine *)
(* with an explicit stack: one frame per Rust activation that is waiting   *)
(* for a nested result, one action per match arm or loop step.             *)
(***************************************************************************)
EXTENDS Integers, Sequences, FiniteSets, TLC

\* ------------------------------------------------------------------------
\* Bounds of the model
\* ------------------------------------------------------------------------

\* The model's integer width: i64 is modelled as a two's-complement integer
\* of IntBits bits (TLC's own integers are 32 bits wide).  5 bits hold the
\* literals of the programs below (-16..15).
IntBits == 5

\* The Rust call depth allowed (call_function activations on the stack).
MaxCalls == 3

\* The longest program handed to the lowering, in statements.
MaxStatements == 2

IntMin == -(2 ^ (IntBits - 1))
IntMax == (2 ^ (IntBits - 1)) - 1

\* ------------------------------------------------------------------------
\* ast.rs: Value (lines 111-119).  Every value is a record of one shape:
\*   kind  the variant, named as Interpreter::type_name names it
\*   i     Integer payload; numerator of a Float
\*   d     denominator of a Float (floats are exact rationals i/d, d > 0)
\*   s     String payload (a sequence of characters); Char holds <<c>>
\*   b     Boolean payload; for a Float zero, TRUE marks the negative zero
\* ------------------------------------------------------------------------
VInteger(n) == [kind |-> "integer", i |-> n, d |-> 1, s |-> <<>>, b |-> FALSE]
VFloatRaw(n, d, neg) == [kind |-> "float", i |-> n, d |-> d, s |-> <<>>, b |-> neg]
VString(s) == [kind |-> "string", i |-> 0, d |-> 1, s |-> s, b |-> FALSE]
VBoolean(b) == [kind |-> "boolean", i |-> 0, d |-> 1, s |-> <<>>, b |-> b]
VChar(c) == [kind |-> "char", i |-> 0, d |-> 1, s |-> <<c>>, b |-> FALSE]
VVoid == [kind |-> "void", i |-> 0, d |-> 1, s |-> <<>>, b |-> FALSE]

Abs(n) == IF n < 0 THEN -n ELSE n

RECURSIVE Gcd(_, _)
Gcd(a, b) == IF b = 0 THEN a ELSE Gcd(b, a % b)

\* A float from a fraction n/d (d # 0), in lowest terms; `neg` is the sign
\* an exact zero result takes.
VFloat(n, d, neg) ==
    LET g == Gcd(Abs(n), Abs(d))
        sn == IF d < 0 THEN -n ELSE n
    IN  IF n = 0 THEN VFloatRaw(0, 1, neg)
        ELSE VFloatRaw(sn \div g, Abs(d) \div g, FALSE)

\* `*l as f64`: widening an integer to a float.
AsF64(n) == VFloatRaw(n, 1, FALSE)

FIsZero(f) == f.i = 0
FIsNeg(f) == f.i < 0 \/ (f.i = 0 /\ f.b)

FAdd(l, r) == VFloat(l.i * r.d + r.i * l.d, l.d * r.d,
                     FIsZero(l) /\ FIsZero(r) /\ l.b /\ r.b)
FNeg(f) == VFloatRaw(-f.i, f.d, IF FIsZero(f) THEN ~f.b ELSE FALSE)
FSub(l, r) == FAdd(l, FNeg(r))
FMul(l, r) == VFloat(l.i * r.i, l.d * r.d, FIsNeg(l) # FIsNeg(r))
FDiv(l, r) == VFloat(l.i * r.d, l.d * r.i, FIsNeg(l) # FIsNeg(r))

\* #[derive(PartialEq)] on Value (ast.rs line 111): same variant and equal
\* payload; f64 equality does not tell the two zeros apart.
ValueEq(l, r) ==
    /\ l.kind = r.kind
    /\ IF l.kind = "float" THEN l.i = r.i /\ l.d = r.d ELSE l = r

\* ------------------------------------------------------------------------
\* error.rs: ValyrianError, as [e |-> variant, a, b, c |-> its fields]
\* ------------------------------------------------------------------------
Err0(e) == [e |-> e, a |-> "", b |-> "", c |-> ""]
DivisionByZero == Err0("DivisionByZero")
ArgumentMismatch == Err0("ArgumentMismatch")
UndefinedVariable(name) == [e |-> "UndefinedVariable", a |-> name, b |-> "", c |-> ""]
UndefinedFunction(name) == [e |-> "UndefinedFunction", a |-> name, b |-> "", c |-> ""]
IoError == Err0("IoError")
type_error(expected, found) ==
    [e |-> "TypeError", a |-> expected, b |-> found, c |-> ""]
invalid_operation(op, left_type, right_type) ==
    [e |-> "InvalidOperation", a |-> op, b |-> left_type, c |-> right_type]
\* The ParseError of apply_unary_operator; its message names the operator
\* and the operand.
InvalidUnary(op, kind) == [e |-> "ParseError", a |-> op, b |-> kind, c |-> ""]

\* The outcome of an operator: a value, a ValyrianError, or a Rust panic
\* (an arithmetic trap: neither a value nor an error).
Ok(v) == [tag |-> "ok", val |-> v, err |-> Err0("")]
Err(e) == [tag |-> "err", val |-> VVoid, err |-> e]
Panic == [tag |-> "panic", val |-> VVoid, err |-> Err0("")]

\* Interpreter::type_name
type_name(value) == value.kind

\* ------------------------------------------------------------------------
\* i64 arithmetic.  `checks` is the build's overflow-checks setting: with
\* it an overflowing + - * or negation panics, without it the result wraps.
\* Division of the minimum by -1 panics in every build.
\* ------------------------------------------------------------------------
Wrap(n) == ((n - IntMin) % (2 ^ IntBits)) + IntMin

IntResult(n, checks) ==
    IF n >= IntMin /\ n <= IntMax THEN Ok(VInteger(n))
    ELSE IF checks THEN Panic ELSE Ok(VInteger(Wrap(n)))

\* Rust's integer division truncates toward zero.
TruncDiv(l, r) ==
    LET q == Abs(l) \div Abs(r)
    IN  IF (l < 0) # (r < 0) THEN -q ELSE q

IntDiv(l, r) ==
    IF l = IntMin /\ r = -1 THEN Panic ELSE Ok(VInteger(TruncDiv(l, r)))

\* BinaryOperator::from_str
BinaryOperator_from_str(s) ==
    CASE s = "+" -> "Add"
      [] s = "-" -> "Subtract"
      [] s = "*" -> "Multiply"
      [] s = "/" -> "Divide"
      [] s = ">" -> "Greater"
      [] s = "<" -> "Less"
      [] s = "==" -> "Equal"
      [] s = "!=" -> "NotEqual"
      [] OTHER -> "None"

\* The operator tokens, and the operators a Binary expression can carry:
\* the variants of BinaryOperator (ast.rs lines 88-97).
OperatorTokens == {"+", "-", "*", "/", ">", "<", "==", "!="}
BinaryOperators == {BinaryOperator_from_str(s) : s \in OperatorTokens}

\* Interpreter::apply_binary_operator, lines 259-273: the arms of + - *.
IsNumeric(v) == v.kind \in {"integer", "float"}

ArithmeticArm(op, left, right) ==
    \/ op \in {"Add", "Subtract", "Multiply"} /\ IsNumeric(left) /\ IsNumeric(right)
    \/ op = "Add" /\ left.kind = "string" /\ right.kind = "string"

\* `*l as f64` where the operand is an integer, the float itself otherwise.
Widen(v) == IF v.kind = "integer" THEN AsF64(v.i) ELSE v

Arithmetic(op, left, right, checks) ==
    IF left.kind = "string" THEN Ok(VString(left.s \o right.s))
    ELSE IF left.kind = "integer" /\ right.kind = "integer" THEN
        IF op = "Add" THEN IntResult(left.i + right.i, checks)
        ELSE IF op = "Subtract" THEN IntResult(left.i - right.i, checks)
        ELSE IntResult(left.i * right.i, checks)
    ELSE
        IF op = "Add" THEN Ok(FAdd(Widen(left), Widen(right)))
        ELSE IF op = "Subtract" THEN Ok(FSub(Widen(left), Widen(right)))
        ELSE Ok(FMul(Widen(left), Widen(right)))

\* Faulty variant of ZeroDivisorArm: the float guard of line 276 is missing.
ZeroDivisorArm_integer_only(op, left, right) ==
    op = "Divide" /\ right.kind = "integer" /\ right.i = 0

\* lines 275-276: the guards `if *r == 0` and `if *r == 0.0`; the left
\* operand is the wildcard `_`.
ZeroDivisorArm(op, left, right) ==
    /\ op = "Divide"
    /\ \/ right.kind = "integer" /\ right.i = 0
       \/ right.kind = "float" /\ FIsZero(right)

\* lines 277-280
DivisionArm(op, left, right) ==
    op = "Divide" /\ IsNumeric(left) /\ IsNumeric(right)

Division(left, right) ==
    IF left.kind = "integer" /\ right.kind = "integer"
    THEN IntDiv(left.i, right.i)
    ELSE Ok(FDiv(Widen(left), Widen(right)))

\* An identifier in operator position of a pattern of the match.  Under
\* `use BinaryOperator::*` (line 256) the name of a variant of BinaryOperator
\* (ast.rs lines 88-97) matches that operator only; any other identifier is
\* a fresh binding, which matches every operator.  And, Or, GreaterEqual,
\* LessEqual, Equals and NotEquals are not variants (the enum has Equal and
\* NotEqual).
OpPattern(ident, op) == IF ident \in BinaryOperators THEN op = ident ELSE TRUE

\* lines 283-304, in source order
ComparisonArms(op, left, right) ==
    LET BB == left.kind = "boolean" /\ right.kind = "boolean"
        II == left.kind = "integer" /\ right.kind = "integer"
    IN  IF OpPattern("And", op) /\ BB THEN Ok(VBoolean(left.b /\ right.b))
        ELSE IF OpPattern("Or", op) /\ BB THEN Ok(VBoolean(left.b \/ right.b))
        ELSE IF OpPattern("Greater", op) /\ II THEN Ok(VBoolean(left.i > right.i))
        ELSE IF OpPattern("Less", op) /\ II THEN Ok(VBoolean(left.i < right.i))
        ELSE IF OpPattern("GreaterEqual", op) /\ II THEN Ok(VBoolean(left.i >= right.i))
        ELSE IF OpPattern("LessEqual", op) /\ II THEN Ok(VBoolean(left.i <= right.i))
        ELSE IF OpPattern("Equals", op) THEN Ok(VBoolean(ValueEq(left, right)))
        ELSE IF OpPattern("NotEquals", op) THEN Ok(VBoolean(~ValueEq(left, right)))
        ELSE Err(invalid_operation(op, type_name(left), type_name(right)))

\* Interpreter::apply_binary_operator: the arms in source order.
apply_binary_operator(op, left, right, checks) ==
    IF ArithmeticArm(op, left, right) THEN Arithmetic(op, left, right, checks)
    ELSE IF ZeroDivisorArm(op, left, right) THEN Err(DivisionByZero)
    ELSE IF DivisionArm(op, left, right) THEN Division(left, right)
    ELSE ComparisonArms(op, left, right)

\* Interpreter::apply_unary_operator
apply_unary_operator(op, operand, checks) ==
    IF op = "Minus" /\ operand.kind = "integer" THEN IntResult(-operand.i, checks)
    ELSE IF op = "Minus" /\ operand.kind = "float" THEN Ok(FNeg(operand))
    ELSE IF op = "Not" /\ operand.kind = "boolean" THEN Ok(VBoolean(~operand.b))
    ELSE Err(InvalidUnary(op, operand.kind))

\* ------------------------------------------------------------------------
\* ast.rs: Expression (lines 58-76) and Statement (lines 10-45)
\* ------------------------------------------------------------------------
Lit(v) == [e |-> "Literal", val |-> v]
Id(name) == [e |-> "Identifier", name |-> name]
Bin(left, op, right) == [e |-> "Binary", left |-> left, op |-> op, right |-> right]
Un(op, operand) == [e |-> "Unary", op |-> op, operand |-> operand]
Input == [e |-> "Input"]
CallE(name, arguments) == [e |-> "FunctionCall", name |-> name, arguments |-> arguments]

VariableDeclaration(name, value) ==
    [s |-> "VariableDeclaration", name |-> name, value |-> value]
FunctionDeclaration(name, parameters, body) ==
    [s |-> "FunctionDeclaration", name |-> name, parameters |-> parameters,
     body |-> body]
FunctionCall(name, arguments) ==
    [s |-> "FunctionCall", name |-> name, arguments |-> arguments]
Assignment(name, value) == [s |-> "Assignment", name |-> name, value |-> value]
\* else_branch: Option<Vec<Statement>>
Conditional(condition, then_branch, has_else, else_branch) ==
    [s |-> "Conditional", condition |-> condition, then_branch |-> then_branch,
     has_else |-> has_else, else_branch |-> else_branch]
ForLoop(count, body) == [s |-> "ForLoop", count |-> count, body |-> body]
WhileLoop(condition, body) ==
    [s |-> "WhileLoop", condition |-> condition, body |-> body]
\* Return(Option<Expression>)
Return(expr) == [s |-> "Return", has_expr |-> TRUE, expr |-> expr]
ReturnNone == [s |-> "Return", has_expr |-> FALSE, expr |-> Lit(VVoid)]
Speak(expr) == [s |-> "Speak", expr |-> expr]
MainBlock(statements) == [s |-> "MainBlock", statements |-> statements]

\* ------------------------------------------------------------------------
\* HashMap<String, _>: a function whose domain is the set of keys
\* ------------------------------------------------------------------------
EmptyMap == [k \in {} |-> 0]
MapInsert(m, key, v) == [k \in DOMAIN m \cup {key} |-> IF k = key THEN v ELSE m[k]]
MapRemove(m, key) == [k \in DOMAIN m \ {key} |-> m[k]]

\* call_function lines 174-177: old_vars, the (name, Option<Value>) pairs
Snapshot(params, vars) ==
    [k \in 1..Len(params) |->
        [param |-> params[k],
         some |-> params[k] \in DOMAIN vars,
         val |-> IF params[k] \in DOMAIN vars THEN vars[params[k]] ELSE VVoid]]

\* call_function lines 186-195 and 200-209: the restore loop over old_vars
RECURSIVE Restore(_, _)
Restore(vars, old_vars) ==
    IF old_vars = <<>> THEN vars
    ELSE LET o == Head(old_vars)
         IN  Restore(IF o.some THEN MapInsert(vars, o.param, o.val)
                     ELSE MapRemove(vars, o.param),
                     Tail(old_vars))

\* String::trim on the line read from stdin
IsWhitespace(c) == c \in {" ", "\n"}

RECURSIVE TrimStart(_)
TrimStart(s) ==
    IF s # <<>> /\ IsWhitespace(Head(s)) THEN TrimStart(Tail(s)) ELSE s

RECURSIVE TrimEnd(_)
TrimEnd(s) ==
    IF s # <<>> /\ IsWhitespace(s[Len(s)])
    THEN TrimEnd(SubSeq(s, 1, Len(s) - 1)) ELSE s

Trim(s) == TrimEnd(TrimStart(s))

\* ------------------------------------------------------------------------
\* parser.rs: the lowering of a parse tree to the AST
\* ------------------------------------------------------------------------
\* pest::iterators::Pair<Rule>: the rule of the node, the text it spans
\* (as_str) and its children (into_inner).  The text of a literal is a
\* sequence of characters, any other text a string.
Pair(rule, str, inner) == [rule |-> rule, str |-> str, inner |-> inner]

\* ValyrianError::ParseError(message): the message's fixed part, and the
\* rule or token it names.
ParseError(message, detail) ==
    [e |-> "ParseError", a |-> message, b |-> detail, c |-> ""]

\* The value of a sequence of decimal digits appended to acc, or -1 when a
\* character is not a digit
RECURSIVE DigitsValue(_, _)
DigitsValue(s, acc) ==
    IF s = <<>> THEN acc
    ELSE LET c == Head(s)
             d == CASE c = "0" -> 0 [] c = "1" -> 1 [] c = "2" -> 2 [] c = "3" -> 3
                    [] c = "4" -> 4 [] c = "5" -> 5 [] c = "6" -> 6 [] c = "7" -> 7
                    [] c = "8" -> 8 [] c = "9" -> 9 [] OTHER -> -1
         IN  IF d < 0 THEN -1 ELSE DigitsValue(Tail(s), acc * 10 + d)

\* str::parse::<i64>, a Result: an optional sign and at least one digit,
\* nothing else, and a value in range.
ParseI64(s) ==
    LET signed == s # <<>> /\ Head(s) \in {"-", "+"}
        digits == IF signed THEN Tail(s) ELSE s
        n == DigitsValue(digits, 0)
        v == IF s # <<>> /\ Head(s) = "-" THEN -n ELSE n
    IN  IF digits = <<>> \/ n < 0 \/ v < IntMin \/ v > IntMax
        THEN [ok |-> FALSE, val |-> 0]
        ELSE [ok |-> TRUE, val |-> v]

\* str::parse::<f64> on decimal notation, a Result: an optional sign,
\* digits, an optional point and digits, at least one digit in all.
ParseF64(s) ==
    LET signed == s # <<>> /\ Head(s) \in {"-", "+"}
        body == IF signed THEN Tail(s) ELSE s
        points == {k \in 1..Len(body) : body[k] = "."}
        whole == IF points = {} THEN body
                 ELSE SubSeq(body, 1, (CHOOSE k \in points : TRUE) - 1)
        frac == IF points = {} THEN <<>>
                ELSE SubSeq(body, (CHOOSE k \in points : TRUE) + 1, Len(body))
        neg == s # <<>> /\ Head(s) = "-"
        n == DigitsValue(whole \o frac, 0)
    IN  IF Cardinality(points) > 1 \/ whole \o frac = <<>> \/ n < 0
        THEN [ok |-> FALSE, val |-> VVoid]
        ELSE [ok |-> TRUE, val |-> VFloat(IF neg THEN -n ELSE n, 10 ^ Len(frac), neg)]

\* str::trim_matches('"')
RECURSIVE TrimQuotes(_)
TrimQuotes(s) ==
    IF s # <<>> /\ Head(s) = "\"" THEN TrimQuotes(Tail(s))
    ELSE IF s # <<>> /\ s[Len(s)] = "\"" THEN TrimQuotes(SubSeq(s, 1, Len(s) - 1))
    ELSE s

\* Iterator::filter(|p| p.as_rule() == rule)
RECURSIVE FilterRule(_, _)
FilterRule(ps, rule) ==
    IF ps = <<>> THEN <<>>
    ELSE IF Head(ps).rule = rule THEN <<Head(ps)>> \o FilterRule(Tail(ps), rule)
    ELSE FilterRule(Tail(ps), rule)

\* Below, Option::unwrap of a child that is not there is a panic.
RECURSIVE parse_expression(_)
RECURSIVE binary_expr_fold(_, _)
RECURSIVE parse_expressions(_)

\* lines 204-216: `while let Some(op) = inner.next()`, folding to the left
binary_expr_fold(left, rest) ==
    IF rest = <<>> THEN Ok(left)
    ELSE LET operator == BinaryOperator_from_str(rest[1].str)
         IN  IF operator = "None"
             THEN Err(ParseError("Unknown binary operator", rest[1].str))
             ELSE IF Len(rest) < 2 THEN Panic
             ELSE LET right == parse_expression(rest[2])
                  IN  IF right.tag # "ok" THEN right
                      ELSE binary_expr_fold(Bin(left, operator, right.val),
                                            SubSeq(rest, 3, Len(rest)))

\* lines 196-326
parse_expression(pair) ==
    LET inner == pair.inner
    IN  IF pair.rule \in {"expression", "primary"}
        THEN IF Len(inner) < 1 THEN Panic ELSE parse_expression(inner[1])
        ELSE IF pair.rule = "binary_expr"
        THEN IF Len(inner) < 1 THEN Panic
             ELSE LET left == parse_expression(inner[1])
                  IN  IF left.tag # "ok" THEN left
                      ELSE binary_expr_fold(left.val, Tail(inner))
        ELSE IF pair.rule = "unary_expr"
        THEN IF Len(inner) < 1 THEN Panic
             ELSE IF inner[1].rule # "unary_op" THEN parse_expression(inner[1])
             ELSE IF inner[1].str \notin {"-", "!"}
             THEN Err(ParseError("Unknown unary operator", inner[1].str))
             ELSE IF Len(inner) < 2 THEN Panic
             ELSE LET operand == parse_expression(inner[2])
                  IN  IF operand.tag # "ok" THEN operand
                      ELSE Ok(Un(IF inner[1].str = "-" THEN "Minus" ELSE "Not",
                                 operand.val))
        ELSE IF pair.rule = "string_literal"
        THEN Ok(Lit(VString(TrimQuotes(pair.str))))
        ELSE IF pair.rule = "integer_literal"
        THEN LET value == ParseI64(Trim(pair.str))
             IN  IF value.ok THEN Ok(Lit(VInteger(value.val)))
                 ELSE Err(ParseError("Invalid integer", ""))
        ELSE IF pair.rule = "float_literal"
        THEN LET value == ParseF64(Trim(pair.str))
             IN  IF value.ok THEN Ok(Lit(value.val))
                 ELSE Err(ParseError("Invalid float", ""))
        ELSE IF pair.rule = "boolean_literal"
        THEN IF pair.str = <<"a", "y", "e">> THEN Ok(Lit(VBoolean(TRUE)))
             ELSE IF pair.str = <<"n", "a", "y">> THEN Ok(Lit(VBoolean(FALSE)))
             ELSE Err(ParseError("Invalid boolean", ""))
        ELSE IF pair.rule = "char_literal"
        THEN IF Len(pair.str) < 3 THEN Err(ParseError("Invalid character literal", ""))
             ELSE Ok(Lit(VChar(pair.str[2])))
        ELSE IF pair.rule = "identifier"
        THEN Ok(Id(pair.str))
        ELSE IF pair.rule = "input_statement"
        THEN IF Len(inner) < 1 THEN Panic ELSE Ok(Input)
        ELSE Err(ParseError("Unknown expression type", pair.rule))

\* `.map(parse_expression).collect::<Result<Vec<_>, _>>()`: the lowered
\* expressions in order, or the first failure
parse_expressions(ps) ==
    IF ps = <<>> THEN Ok(<<>>)
    ELSE LET first == parse_expression(Head(ps))
         IN  IF first.tag # "ok" THEN first
             ELSE LET others == parse_expressions(Tail(ps))
                  IN  IF others.tag # "ok" THEN others
                      ELSE Ok(<<first.val>> \o others.val)

RECURSIVE parse_statement(_)
RECURSIVE parse_statements(_)
RECURSIVE conditional_branches(_, _, _, _)

\* `.filter(statement).map(parse_statement).collect::<Result<Vec<_>, _>>()`
\* and the loops that push `parse_statement(p)?`: the lowered statements in
\* order, or the first failure
parse_statements(ps) ==
    IF ps = <<>> THEN Ok(<<>>)
    ELSE IF Head(ps).rule # "statement" THEN parse_statements(Tail(ps))
    ELSE LET first == parse_statement(Head(ps))
         IN  IF first.tag # "ok" THEN first
             ELSE LET others == parse_statements(Tail(ps))
                  IN  IF others.tag # "ok" THEN others
                      ELSE Ok(<<first.val>> \o others.val)

\* lines 38-53: the children of every block child of a main block
RECURSIVE BlockChildren(_)
BlockChildren(ps) ==
    IF ps = <<>> THEN <<>>
    ELSE (IF Head(ps).rule = "block" THEN Head(ps).inner ELSE <<>>)
         \o BlockChildren(Tail(ps))

\* lines 124-153: the statements before and after an ELSE token
conditional_branches(ps, in_else, then_branch, else_branch) ==
    IF ps = <<>>
    THEN Ok([then_branch |-> then_branch, else_branch |-> else_branch])
    ELSE IF Head(ps).rule = "ELSE"
    THEN conditional_branches(Tail(ps), TRUE, then_branch, else_branch)
    ELSE IF Head(ps).rule # "statement"
    THEN conditional_branches(Tail(ps), in_else, then_branch, else_branch)
    ELSE LET parsed == parse_statement(Head(ps))
         IN  IF parsed.tag # "ok" THEN parsed
             ELSE IF in_else
             THEN conditional_branches(Tail(ps), in_else, then_branch,
                                       Append(else_branch, parsed.val))
             ELSE conditional_branches(Tail(ps), in_else,
                                       Append(then_branch, parsed.val), else_branch)

\* lines 27-194
parse_statement(pair) ==
    IF pair.inner = <<>>
    THEN Err(ParseError("Empty statement found in the scroll", ""))
    ELSE
    LET inner == pair.inner[1]
        inner_rules == inner.inner
    IN  IF inner.rule = "main_block"
        THEN LET body == parse_statements(BlockChildren(inner_rules))
             IN  IF body.tag # "ok" THEN body ELSE Ok(MainBlock(body.val))
        ELSE IF inner.rule = "variable_declaration"
        THEN IF Len(inner_rules) < 2 THEN Panic
             ELSE IF Len(inner_rules) < 3
             THEN Err(ParseError("Missing expression in variable declaration", ""))
             ELSE LET value == parse_expression(inner_rules[3])
                  IN  IF value.tag # "ok" THEN value
                      ELSE IF inner_rules[2].str \notin
                              {"scroll", "blade", "wine", "vow", "sigil", "void"}
                      THEN Err(ParseError("Unknown type", inner_rules[2].str))
                      ELSE Ok(VariableDeclaration(inner_rules[1].str, value.val))
        ELSE IF inner.rule = "function_declaration"
        THEN IF Len(inner_rules) < 2 THEN Panic
             ELSE LET params == FilterRule(inner_rules[2].inner, "identifier")
                      body == parse_statements(SubSeq(inner_rules, 3, Len(inner_rules)))
                  IN  IF body.tag # "ok" THEN body
                      ELSE Ok(FunctionDeclaration(
                                 inner_rules[1].str,
                                 [k \in 1..Len(params) |-> params[k].str],
                                 body.val))
        ELSE IF inner.rule = "function_call"
        THEN IF Len(inner_rules) < 1 THEN Panic
             ELSE LET arguments ==
                          parse_expressions(FilterRule(Tail(inner_rules), "expression"))
                  IN  IF arguments.tag # "ok" THEN arguments
                      ELSE Ok(FunctionCall(inner_rules[1].str, arguments.val))
        ELSE IF inner.rule = "assignment"
        THEN IF Len(inner_rules) < 2 THEN Panic
             ELSE LET value == parse_expression(inner_rules[2])
                  IN  IF value.tag # "ok" THEN value
                      ELSE Ok(Assignment(inner_rules[1].str, value.val))
        ELSE IF inner.rule = "conditional"
        THEN IF Len(inner_rules) < 1 THEN Panic
             ELSE LET condition == parse_expression(inner_rules[1])
                  IN  IF condition.tag # "ok" THEN condition
                      ELSE LET br == conditional_branches(Tail(inner_rules), FALSE,
                                                          <<>>, <<>>)
                           IN  IF br.tag # "ok" THEN br
                               ELSE Ok(Conditional(condition.val, br.val.then_branch,
                                                   br.val.else_branch # <<>>,
                                                   br.val.else_branch))
        ELSE IF inner.rule = "for_loop"
        THEN IF Len(inner_rules) < 1 THEN Panic
             ELSE LET count == ParseI64(inner_rules[1].str)
                  IN  IF ~count.ok THEN Err(ParseError("Invalid loop count", ""))
                      ELSE LET body == parse_statements(Tail(inner_rules))
                           IN  IF body.tag # "ok" THEN body
                               ELSE Ok(ForLoop(count.val, body.val))
        ELSE IF inner.rule = "while_loop"
        THEN IF Len(inner_rules) < 1 THEN Panic
             ELSE LET condition == parse_expression(inner_rules[1])
                  IN  IF condition.tag # "ok" THEN condition
                      ELSE LET body == parse_statements(Tail(inner_rules))
                           IN  IF body.tag # "ok" THEN body
                               ELSE Ok(WhileLoop(condition.val, body.val))
        ELSE IF inner.rule = "speak_statement"
        THEN IF Len(inner_rules) < 1
             THEN Err(ParseError("speak() is empty", ""))
             ELSE LET expr == parse_expression(inner_rules[1])
                  IN  IF expr.tag # "ok" THEN expr ELSE Ok(Speak(expr.val))
        ELSE Err(ParseError("Unknown statement type", inner.rule))

\* ------------------------------------------------------------------------
\* The programs interpret is run on
\* ------------------------------------------------------------------------
I(n) == Lit(VInteger(n))
F(n, d) == Lit(VFloatRaw(n, d, FALSE))
S(s) == Lit(VString(s))
B(b) == Lit(VBoolean(b))
Ch(c) == Lit(VChar(c))

\* Sequences over `set` of length at most n
RECURSIVE SeqsUpTo(_, _)
SeqsUpTo(set, n) ==
    IF n = 0 THEN {<<>>}
    ELSE LET shorter == SeqsUpTo(set, n - 1)
         IN  shorter \cup {Append(q, x) : q \in shorter, x \in set}

\* A function of no parameters and an empty body: calling it yields Void.
DeclNothing == FunctionDeclaration("nothing", <<>>, <<>>)

\* Operands of every kind: literals, the negative float zero (the negation
\* of the literal 0.0) and a void call.
OperandExprs ==
    {I(IntMin), I(-1), I(0), I(1), I(IntMax)}
    \cup {F(0, 1), Un("Minus", F(0, 1)), F(1, 2), F(-3, 2), F(2, 1)}
    \cup {S(<<>>), S(<<"a">>), S(<<"b">>)}
    \cup {B(TRUE), B(FALSE)}
    \cup {Ch("a"), Ch("b")}
    \cup {CallE("nothing", <<>>)}

\* speak(l op r) for every operator and every pair of operands
OperatorPrograms ==
    {<<DeclNothing, Speak(Bin(l, op, r))>> :
        l \in OperandExprs, r \in OperandExprs, op \in BinaryOperators}

UnaryPrograms ==
    {<<DeclNothing, Speak(Un(op, x))>> :
        x \in OperandExprs, op \in {"Minus", "Not"}}

\* The scenario of dividing 10 by 0 in a speak statement
DivideTenByZero == <<Speak(Bin(I(10), "Divide", I(0)))>>

\* ---- function calls ----
\* g: no parameters; writes the global x, prints, returns a value
DeclG ==
    FunctionDeclaration("g", <<>>,
        <<VariableDeclaration("x", I(5)), Speak(I(6)), Return(I(4))>>)

ParamLists == {<<>>, <<"a">>, <<"a", "b">>, <<"a", "a">>, <<"a", "x">>}

ArgLists ==
    {<<>>, <<I(1)>>, <<I(1), Id("a")>>, <<Bin(I(1), "Divide", I(0))>>,
     <<CallE("g", <<>>), Id("x")>>, <<I(1), I(2), Input>>}

\* a return below a counted loop, a while loop, a conditional and a nested
\* main block, each followed by statements that must not run
NestedReturn ==
    <<ForLoop(2,
        <<WhileLoop(B(TRUE),
            <<Conditional(B(TRUE),
                <<MainBlock(<<Return(Id("a")), Speak(I(7))>>), Speak(I(7))>>,
                FALSE, <<>>),
              Speak(I(7))>>),
          Speak(I(7))>>),
      Speak(I(7))>>

Bodies ==
    {<<>>,
     <<Assignment("a", I(5)), VariableDeclaration("b", I(6)),
       VariableDeclaration("y", Id("a"))>>,
     <<VariableDeclaration("a", I(5)), Return(Id("a")), Speak(I(7))>>,
     <<Speak(Id("a")), Conditional(B(FALSE), <<Speak(I(7))>>, TRUE, <<ReturnNone>>),
       Speak(I(7))>>,
     NestedReturn}

Preludes ==
    {<<>>, <<VariableDeclaration("a", I(3))>>,
     <<VariableDeclaration("a", I(3)), VariableDeclaration("b", S(<<"b">>))>>}

CallPrograms ==
    {<<DeclG, FunctionDeclaration("f", ps, body)>> \o pre
        \o <<call, Speak(Id("a"))>> :
        ps \in ParamLists, body \in Bodies, pre \in Preludes,
        call \in UNION {{FunctionCall("f", args), Speak(CallE("f", args))} :
                        args \in ArgLists}}

\* recursion: f calls itself until the global n reaches 2
Recursive ==
    <<FunctionDeclaration("f", <<"a">>,
        <<Conditional(Bin(Id("a"), "Less", I(2)),
            <<Return(Bin(CallE("f", <<Bin(Id("a"), "Add", I(1))>>), "Add", Id("a")))>>,
            FALSE, <<>>),
          Return(Id("a"))>>),
      VariableDeclaration("a", I(0)),
      Speak(CallE("f", <<Id("a")>>)),
      Speak(Id("a"))>>

\* unbounded recursion
Unbounded ==
    <<FunctionDeclaration("f", <<>>, <<FunctionCall("f", <<>>)>>),
      FunctionCall("f", <<>>)>>

\* ---- registration ----
TopLevelItems ==
    {FunctionDeclaration("f", <<>>, <<Return(I(1))>>),
     FunctionDeclaration("f", <<>>, <<Return(I(2))>>),
     FunctionDeclaration("f", <<"a">>, <<Return(Id("a"))>>),
     Speak(CallE("f", <<>>)),
     MainBlock(<<FunctionDeclaration("f", <<>>, <<Return(I(3))>>),
                 Speak(CallE("f", <<>>))>>)}

RegistrationPrograms == SeqsUpTo(TopLevelItems, 3)

\* ---- return outside any function call ----
ReturnItems ==
    {MainBlock(<<Speak(I(1)), Return(I(2)), Speak(I(3))>>),
     MainBlock(<<Conditional(B(TRUE), <<ReturnNone, Speak(I(4))>>, FALSE, <<>>),
                 Speak(I(3))>>),
     MainBlock(<<MainBlock(<<ReturnNone, Speak(I(4))>>), Speak(I(3))>>),
     ReturnNone,
     ForLoop(2, <<Speak(I(5)), Return(I(2)), Speak(I(4))>>),
     Speak(I(6))}

TopLevelReturnPrograms == SeqsUpTo(ReturnItems, 2)

\* ---- assignment and declaration ----
ValueExprs ==
    {I(1), S(<<"a">>), Id("x"), Bin(I(1), "Divide", I(0)), CallE("g", <<>>), Input,
     Id("z")}

AssignmentPrograms ==
    {<<DeclG>> \o pre \o <<st, Speak(Id("x"))>> :
        pre \in {<<>>, <<VariableDeclaration("x", B(TRUE))>>,
                 <<VariableDeclaration("y", I(0))>>},
        st \in UNION {{Assignment("x", v), VariableDeclaration("x", v),
                       MainBlock(<<Assignment("x", v)>>)} : v \in ValueExprs}}

\* ---- loops and conditionals ----
CountThree == <<ForLoop(3, <<Speak(S(<<"h", "i">>))>>)>>

WhileThree ==
    <<VariableDeclaration("x", I(0)),
      WhileLoop(Bin(Id("x"), "Less", I(3)),
                <<Speak(Id("x")), Assignment("x", Bin(Id("x"), "Add", I(1)))>>),
      Speak(Id("x"))>>

\* a counted loop over a body of two statements
C12_Loop(n) == <<ForLoop(n, <<Speak(I(1)), Speak(I(2))>>), Speak(I(3))>>

\* a counted loop in a function body that returns in its second iteration
C12_ReturnProgram ==
    <<FunctionDeclaration("f", <<>>,
        <<ForLoop(3,
            <<Speak(Id("x")),
              Conditional(Bin(Id("x"), "Greater", I(0)), <<Return(Id("x"))>>,
                          FALSE, <<>>),
              Assignment("x", Bin(Id("x"), "Add", I(1))),
              Speak(I(9))>>),
          Speak(I(7))>>),
      VariableDeclaration("x", I(0)),
      Speak(CallE("f", <<>>)),
      Speak(I(8))>>

\* a while loop whose condition is an integer at its second evaluation
C13_LaterNonBoolean ==
    <<VariableDeclaration("x", B(TRUE)),
      WhileLoop(Id("x"), <<Speak(I(1)), Assignment("x", I(0)), Speak(I(2))>>),
      Speak(I(3))>>

\* the scenario `blade x = 5; speak(x + 3)`
C16_Scenario ==
    <<VariableDeclaration("x", I(5)), Speak(Bin(Id("x"), "Add", I(3)))>>

\* global a = 10, f(a, b) prints b, the call f(1, a)
C17_Program ==
    <<FunctionDeclaration("f", <<"a", "b">>, <<Speak(Id("b"))>>),
      VariableDeclaration("a", I(10)),
      FunctionCall("f", <<I(1), Id("a")>>),
      Speak(Id("a"))>>

ControlPrograms ==
    {CountThree, WhileThree, Recursive, Unbounded, DivideTenByZero,
     C17_Program,
     C16_Scenario,
     C13_LaterNonBoolean,
     C12_ReturnProgram}
    \cup {C12_Loop(n) : n \in -1..3}
    \cup {<<ForLoop(n, <<Speak(I(n))>>)>> : n \in -1..2}
    \cup {<<Conditional(c, <<Speak(I(1))>>, e, <<Speak(I(2))>>), Speak(I(3))>> :
            c \in {B(TRUE), B(FALSE), I(1), S(<<>>)}, e \in BOOLEAN}
    \cup {<<WhileLoop(c, <<Speak(I(1))>>)>> : c \in {B(FALSE), I(0), F(0, 1)}}

\* ---- errors at every nesting depth ----
\* Statements whose execution yields an error (or, for the read, may).
C11_ErrorStatements ==
    {Speak(Id("z")),
     Assignment("z", I(1)),
     FunctionCall("h", <<>>),
     FunctionCall("g", <<I(1)>>),
     Conditional(I(1), <<Speak(I(9))>>, TRUE, <<Speak(I(9))>>),
     WhileLoop(S(<<>>), <<Speak(I(9))>>),
     Speak(Bin(I(1), "Divide", I(0))),
     Speak(Un("Not", I(1))),
     VariableDeclaration("a", Input)}

\* Expressions whose evaluation yields an error
C11_ErrorExprs ==
    {Id("z"), Bin(I(1), "Divide", I(0)), Un("Not", I(1)), CallE("h", <<>>),
     CallE("g", <<I(1)>>)}

\* f(a) runs `st` in its body, k(a, b) is called with a failing argument
C11_DeclF(st) == FunctionDeclaration("f", <<"a">>, <<Speak(Id("a")), st, Speak(I(9))>>)
C11_DeclK == FunctionDeclaration("k", <<"a", "b">>, <<Speak(I(9))>>)

\* `st` at the top level, in a main block, in either branch, in a counted
\* loop, in a while loop and in a function body; each followed by statements
\* that print 9 or rebind a.
C11_Nestings(st) ==
    {<<st>>,
     <<MainBlock(<<st, Speak(I(9))>>)>>,
     <<Conditional(B(TRUE), <<st, Speak(I(9))>>, FALSE, <<>>)>>,
     <<Conditional(B(FALSE), <<Speak(I(9))>>, TRUE, <<st, Speak(I(9))>>)>>,
     <<ForLoop(2, <<st, Speak(I(9))>>)>>,
     <<WhileLoop(Bin(Id("a"), "Less", I(1)),
                 <<st, Speak(I(9)), Assignment("a", I(1))>>)>>,
     <<FunctionCall("f", <<I(1)>>)>>,
     <<MainBlock(<<ForLoop(2,
          <<Conditional(B(TRUE), <<FunctionCall("f", <<I(1)>>), Speak(I(9))>>,
                        FALSE, <<>>),
            Speak(I(9))>>)>>)>>}

C11_ErrorProgram(st, nested) ==
    <<DeclG, C11_DeclF(st), C11_DeclK, VariableDeclaration("a", I(0)), Speak(I(1))>>
    \o nested \o <<Speak(I(9)), VariableDeclaration("a", I(9))>>

C11_Programs ==
    UNION {{C11_ErrorProgram(st, nested) : nested \in C11_Nestings(st)} :
           st \in C11_ErrorStatements}
    \cup {C11_ErrorProgram(Speak(I(9)), <<FunctionCall("k", <<I(1), e>>)>>) :
            e \in C11_ErrorExprs}

\* a conditional on a condition of every kind, with and without else-branch
C14_Conditions ==
    {B(TRUE), B(FALSE), I(1), F(1, 2), S(<<>>), Ch("a"), CallE("nothing", <<>>)}

C14_Program(c, has_else) ==
    <<DeclNothing,
      Conditional(c, <<Speak(I(1)), Speak(I(4))>>, has_else,
                  IF has_else THEN <<Speak(I(2)), Speak(I(5))>> ELSE <<>>),
      Speak(I(3))>>

C14_Programs ==
    {C14_Program(c, has_else) : c \in C14_Conditions, has_else \in BOOLEAN}

Programs ==
    OperatorPrograms \cup UnaryPrograms \cup CallPrograms \cup RegistrationPrograms
    \cup TopLevelReturnPrograms \cup AssignmentPrograms \cup ControlPrograms
    \cup C11_Programs \cup C14_Programs

\* ------------------------------------------------------------------------
\* The parse trees the lowering is run on
\* ------------------------------------------------------------------------
PIdentifier(name) == Pair("identifier", name, <<>>)
PInteger(text) == Pair("integer_literal", text, <<>>)
PExpression(p) == Pair("expression", "", <<p>>)
PPrimary(p) == Pair("unary_expr", "", <<Pair("primary", "", <<p>>)>>)
PBinary(l, token, r) ==
    Pair("binary_expr", "", <<PPrimary(l), Pair("binary_op", token, <<>>), PPrimary(r)>>)
\* an expression through every level: expression, binary_expr, unary_expr, primary
PNested(p) == PExpression(Pair("binary_expr", "", <<PPrimary(p)>>))
PStatement(p) == Pair("statement", "", <<p>>)
\* a call node: the name, then the arguments (expression nodes) between
\* the tokens of the argument list
PFunctionCall(name, arguments) ==
    Pair("function_call", "", <<PIdentifier(name)>> \o arguments)

\* The statement nodes of the trees: calls as statements, speak statements
\* over expressions with and without a call, and a node of every other rule
\* of parse_statement
StatementNodes ==
    LET \* expressions without a call
        PlainExpressions ==
            {PExpression(PInteger(<<"2">>)),
             PNested(PInteger(<<" ", "3">>)),
             PNested(PIdentifier("a")),
             PNested(Pair("string_literal", <<"\"", "h", "i", "\"">>, <<>>)),
             PNested(Pair("float_literal", <<"1", ".", "5">>, <<>>)),
             PNested(Pair("boolean_literal", <<"a", "y", "e">>, <<>>)),
             PNested(Pair("boolean_literal", <<"n", "a", "y">>, <<>>)),
             PNested(Pair("char_literal", <<"'", "c", "'">>, <<>>)),
             PExpression(PBinary(PInteger(<<"2">>), "+", PIdentifier("a"))),
             PExpression(PBinary(PInteger(<<"2">>), "%", PIdentifier("a"))),
             PExpression(Pair("unary_expr", "",
                              <<Pair("unary_op", "-", <<>>),
                                Pair("primary", "", <<PIdentifier("a")>>)>>)),
             PNested(Pair("input_statement", "", <<PIdentifier("a")>>)),
             PNested(PInteger(<<"9", "9", "9">>))}
        ArgumentLists ==
            {<<>>,
             <<PExpression(PInteger(<<"2">>)), PNested(PInteger(<<"3">>))>>,
             <<PNested(PIdentifier("a")), Pair("comma", ",", <<>>),
               PNested(Pair("string_literal", <<"\"", "h", "i", "\"">>, <<>>))>>,
             <<PNested(PInteger(<<"9", "9", "9">>))>>}
        \* add(...) over every argument list, and a call with a call as its
        \* argument
        CallNodes ==
            {PFunctionCall("add", arguments) : arguments \in ArgumentLists}
            \cup {PFunctionCall("f", <<PNested(PFunctionCall("add", <<>>))>>)}
        \* a call in expression position: the whole expression, or an operand
        CallExpressions ==
            UNION {{PExpression(call), PNested(call),
                    PExpression(PBinary(call, "+", PInteger(<<"1">>)))} :
                   call \in CallNodes}
        Speaks(e) == PStatement(Pair("speak_statement", "", <<e>>))
        Calls == PStatement(PFunctionCall("add", <<>>))
    IN  {PStatement(call) : call \in CallNodes}
        \cup {Speaks(e) : e \in PlainExpressions \cup CallExpressions}
        \cup {PStatement(Pair("variable_declaration", "",
                              <<PIdentifier("x"), Pair("data_type", ty, <<>>), e>>)) :
                ty \in {"blade", "sword"},
                e \in {PExpression(PInteger(<<"5">>)),
                       PNested(PFunctionCall("add", <<>>))}}
        \cup {PStatement(Pair("assignment", "",
                              <<PIdentifier("x"), PNested(PIdentifier("a"))>>)),
              PStatement(Pair("conditional", "",
                  <<PNested(PIdentifier("a")), Calls, Pair("ELSE", "", <<>>),
                    Speaks(PNested(PIdentifier("a")))>>)),
              PStatement(Pair("conditional", "", <<PNested(PIdentifier("a")), Calls>>)),
              PStatement(Pair("for_loop", "", <<PInteger(<<"3">>), Calls>>)),
              PStatement(Pair("for_loop", "", <<PInteger(<<" ", "3">>)>>)),
              PStatement(Pair("while_loop", "", <<PNested(PIdentifier("a")), Calls>>)),
              PStatement(Pair("main_block", "",
                  <<Pair("NEWLINE", "", <<>>),
                    Pair("block", "",
                         <<Calls, Pair("COMMENT", "", <<>>),
                           Speaks(PNested(PIdentifier("a")))>>)>>)),
              PStatement(Pair("function_declaration", "",
                  <<PIdentifier("add"),
                    Pair("parameters", "", <<PIdentifier("a"), PIdentifier("b")>>),
                    Speaks(PExpression(PBinary(PIdentifier("a"), "+",
                                               PIdentifier("b"))))>>)),
              PStatement(Pair("return_statement", "", <<PNested(PIdentifier("a"))>>)),
              Pair("statement", "", <<>>)}

\* what MidValyrianParser::parse hands to parse_program: one program node
\* over at most MaxStatements statements and the end-of-input token
ParseTrees ==
    {<<Pair("program", "", stmts \o <<Pair("EOI", "", <<>>)>>)>> :
        stmts \in SeqsUpTo(StatementNodes, MaxStatements)}


\* Lines the standard input can deliver to read_line (line 243); <<>> is
\* the end of the input.
InputLines == { <<"h", "i", "\n">>, <<" ", "\n">>, <<>> }

\* ------------------------------------------------------------------------
\* State
\* ------------------------------------------------------------------------
VARIABLES
    pairs,            \* the parse tree handed to the lowering (parse_program)
    program,          \* the Program handed to interpret
    overflow_checks,  \* the build: whether integer overflow panics
    variables,        \* Interpreter.variables
    functions,        \* Interpreter.functions
    out,              \* the values written by println! in Speak, in order
    phase,            \* interpret: "register" (first loop), "run", "done"
    top_i,            \* interpret: index into program.statements
    main_j,           \* interpret: statements of the current main block begun
    stack,            \* the activations waiting for a nested result
    ctl,              \* what the innermost activation is doing / has produced
    result            \* what the run ended with

vars == <<pairs, program, overflow_checks, variables, functions, out, phase, top_i,
          main_j, stack, ctl, result>>

\* ctl
Idle == [c |-> "idle"]
Exec(stmt) == [c |-> "stmt", stmt |-> stmt]            \* execute_statement(stmt)
Eval(expr) == [c |-> "expr", expr |-> expr]            \* evaluate_expression(expr)
Val(v) == [c |-> "val", val |-> v]                     \* Ok(value)
FlowNone == [c |-> "flow", ret |-> FALSE, val |-> VVoid]   \* Ok(None)
FlowReturn(v) == [c |-> "flow", ret |-> TRUE, val |-> v]   \* Ok(Some(Return(v)))

Running == [tag |-> "running", err |-> Err0("")]
Finished(tag, e) == [tag |-> tag, err |-> e]

Top == stack[Len(stack)]
Pop == SubSeq(stack, 1, Len(stack) - 1)
Push(frame) == Append(stack, frame)
ReplaceTop(frame) == Append(Pop, frame)

CallDepth == Cardinality({k \in 1..Len(stack) : stack[k].f = "call"})

Init ==
    /\ pairs = <<>>
    /\ program \in Programs
    /\ overflow_checks \in BOOLEAN
    /\ variables = EmptyMap
    /\ functions = EmptyMap
    /\ out = <<>>
    /\ phase = "register"
    /\ top_i = 1
    /\ main_j = 0
    /\ stack = <<>>
    /\ ctl = Idle
    /\ result = Running

\* Faulty variant of Fail: an error leaving a function call runs the restore
\* loop of the innermost call on its way out.
Fail_restoring(e) ==
    /\ phase' = "done"
    /\ result' = Finished("err", e)
    /\ stack' = <<>>
    /\ ctl' = Idle
    /\ variables' =
         LET calls == {k \in 1..Len(stack) : stack[k].f = "call"}
         IN  IF calls = {} THEN variables
             ELSE Restore(variables,
                          stack[CHOOSE k \in calls : \A j \in calls : j <= k].old_vars)
    /\ UNCHANGED <<pairs, program, overflow_checks, functions, out, top_i, main_j>>

\* An Err that `?` carries out of every activation up to interpret's caller.
Fail(e) ==
    /\ phase' = "done"
    /\ result' = Finished("err", e)
    /\ stack' = <<>>
    /\ ctl' = Idle
    /\ UNCHANGED <<pairs, program, overflow_checks, variables, functions, out, top_i, main_j>>

\* A panic: the process aborts.
Abort ==
    /\ phase' = "done"
    /\ result' = Finished("panic", Err0(""))
    /\ stack' = <<>>
    /\ ctl' = Idle
    /\ UNCHANGED <<pairs, program, overflow_checks, variables, functions, out, top_i, main_j>>

\* The outcome r of an operator, handed to the activation below.
Deliver(r, stk) ==
    IF r.tag = "err" THEN Fail(r.err)
    ELSE IF r.tag = "panic" THEN Abort
    ELSE /\ ctl' = Val(r.val)
         /\ stack' = stk
         /\ UNCHANGED <<pairs, program, overflow_checks, variables, functions, out,
                        phase, top_i, main_j, result>>

\* A step that changes only ctl and stack.
Goto(c, stk) ==
    /\ ctl' = c
    /\ stack' = stk
    /\ UNCHANGED <<pairs, program, overflow_checks, variables, functions, out,
                   phase, top_i, main_j, result>>

\* ------------------------------------------------------------------------
\* interpret
\* ------------------------------------------------------------------------

\* Faulty variant of interpret_register: a name already in the table is not
\* overwritten.
interpret_register_first_wins ==
    /\ phase = "register"
    /\ IF top_i <= Len(program)
       THEN LET st == program[top_i]
            IN  /\ functions' =
                      IF st.s = "FunctionDeclaration" /\ st.name \notin DOMAIN functions
                      THEN MapInsert(functions, st.name,
                                     [parameters |-> st.parameters, body |-> st.body])
                      ELSE functions
                /\ top_i' = top_i + 1
                /\ phase' = phase
       ELSE /\ phase' = "run"
            /\ top_i' = 1
            /\ functions' = functions
    /\ UNCHANGED <<pairs, program, overflow_checks, variables, out, main_j, stack, ctl, result>>

\* lines 26-30: one iteration of the registration loop, or its end
interpret_register ==
    /\ phase = "register"
    /\ IF top_i <= Len(program)
       THEN LET st == program[top_i]
            IN  /\ functions' =
                      IF st.s = "FunctionDeclaration"
                      THEN MapInsert(functions, st.name,
                                     [parameters |-> st.parameters, body |-> st.body])
                      ELSE functions
                /\ top_i' = top_i + 1
                /\ phase' = phase
       ELSE /\ phase' = "run"
            /\ top_i' = 1
            /\ functions' = functions
    /\ UNCHANGED <<pairs, program, overflow_checks, variables, out, main_j, stack, ctl, result>>

\* lines 32-46: the execution loop.  It runs when interpret is the innermost
\* activation; whatever Option<ControlFlow> the last execute_statement
\* returned (lines 36 and 41) is dropped.
interpret_next ==
    /\ phase = "run"
    /\ stack = <<>>
    /\ ctl.c \in {"idle", "flow"}
    /\ IF top_i > Len(program)
       THEN /\ phase' = "done"
            /\ result' = Finished("ok", Err0(""))
            /\ ctl' = Idle
            /\ UNCHANGED <<top_i, main_j>>
       ELSE LET st == program[top_i]
            IN  /\ UNCHANGED <<phase, result>>
                /\ IF st.s = "MainBlock"
                   THEN IF main_j < Len(st.statements)
                        THEN /\ ctl' = Exec(st.statements[main_j + 1])
                             /\ main_j' = main_j + 1
                             /\ top_i' = top_i
                        ELSE /\ ctl' = Idle
                             /\ main_j' = 0
                             /\ top_i' = top_i + 1
                   ELSE IF st.s = "FunctionDeclaration"
                        THEN /\ ctl' = Idle
                             /\ top_i' = top_i + 1
                             /\ main_j' = main_j
                        ELSE /\ ctl' = Exec(st)
                             /\ top_i' = top_i + 1
                             /\ main_j' = main_j
    /\ UNCHANGED <<pairs, program, overflow_checks, variables, functions, out, stack>>

\* ------------------------------------------------------------------------
\* call_function
\* ------------------------------------------------------------------------

\* What a finished call hands to its caller: the statement arm (lines 79-82)
\* drops the value and yields Ok(None), the expression arm (line 246)
\* yields the value.
CallResult(frame, v) == IF frame.as_stmt THEN FlowNone ELSE Val(v)

\* Faulty variant of call_function: only a call with too many arguments is
\* refused.
call_function_accepts_fewer(name, arguments, as_stmt) ==
    IF name \notin DOMAIN functions THEN Fail(UndefinedFunction(name))
    ELSE LET fn == functions[name]
         IN  IF Len(arguments) > Len(fn.parameters) THEN Fail(ArgumentMismatch)
             ELSE /\ CallDepth < MaxCalls
                  /\ Goto(IF arguments = <<>> THEN FlowNone ELSE Eval(arguments[1]),
                          Push([f |-> "call",
                                name |-> name,
                                params |-> fn.parameters,
                                arguments |-> arguments,
                                body |-> fn.body,
                                old_vars |-> Snapshot(fn.parameters, variables),
                                bound |-> 0,
                                idx |-> 0,
                                as_stmt |-> as_stmt]))

\* lines 165-178: lookup, argument count, snapshot; then the first argument
\* expression is evaluated (line 180), or the body begins.
call_function(name, arguments, as_stmt) ==
    IF name \notin DOMAIN functions THEN Fail(UndefinedFunction(name))
    ELSE LET fn == functions[name]
         IN  IF Len(arguments) # Len(fn.parameters) THEN Fail(ArgumentMismatch)
             ELSE /\ CallDepth < MaxCalls
                  /\ Goto(IF arguments = <<>> THEN FlowNone ELSE Eval(arguments[1]),
                          Push([f |-> "call",
                                name |-> name,
                                params |-> fn.parameters,
                                arguments |-> arguments,
                                body |-> fn.body,
                                old_vars |-> Snapshot(fn.parameters, variables),
                                bound |-> 0,
                                idx |-> 0,
                                as_stmt |-> as_stmt]))

\* lines 179-182: the argument just evaluated is bound to its parameter;
\* then the next argument is evaluated, or the body begins.
call_bind ==
    /\ phase = "run"
    /\ ctl.c = "val"
    /\ stack # <<>>
    /\ Top.f = "call"
    /\ variables' = MapInsert(variables, Top.params[Top.bound + 1], ctl.val)
    /\ stack' = ReplaceTop([Top EXCEPT !.bound = @ + 1])
    /\ ctl' = IF Top.bound + 1 < Len(Top.arguments)
              THEN Eval(Top.arguments[Top.bound + 2])
              ELSE FlowNone
    /\ UNCHANGED <<pairs, program, overflow_checks, functions, out, phase, top_i,
                   main_j, result>>

\* lines 184-185: the next statement of the body
call_next_statement ==
    /\ phase = "run"
    /\ ctl.c = "flow"
    /\ ~ctl.ret
    /\ stack # <<>>
    /\ Top.f = "call"
    /\ Top.idx < Len(Top.body)
    /\ Goto(Exec(Top.body[Top.idx + 1]), ReplaceTop([Top EXCEPT !.idx = @ + 1]))

\* lines 200-211: the body fell off its end
call_fall_through ==
    /\ phase = "run"
    /\ ctl.c = "flow"
    /\ ~ctl.ret
    /\ stack # <<>>
    /\ Top.f = "call"
    /\ Top.idx >= Len(Top.body)
    /\ variables' = Restore(variables, Top.old_vars)
    /\ ctl' = CallResult(Top, VVoid)
    /\ stack' = Pop
    /\ UNCHANGED <<pairs, program, overflow_checks, functions, out, phase, top_i,
                   main_j, result>>

\* Faulty variant of call_return: the early-return path forgets the restore
\* loop of lines 186-195.
call_return_without_restore ==
    /\ phase = "run"
    /\ ctl.c = "flow"
    /\ ctl.ret
    /\ stack # <<>>
    /\ Top.f = "call"
    /\ ctl' = CallResult(Top, ctl.val)
    /\ stack' = Pop
    /\ UNCHANGED <<pairs, program, overflow_checks, variables, functions, out, phase,
                   top_i, main_j, result>>

\* lines 185-197: a body statement yielded Some(ControlFlow::Return(val))
call_return ==
    /\ phase = "run"
    /\ ctl.c = "flow"
    /\ ctl.ret
    /\ stack # <<>>
    /\ Top.f = "call"
    /\ variables' = Restore(variables, Top.old_vars)
    /\ ctl' = CallResult(Top, ctl.val)
    /\ stack' = Pop
    /\ UNCHANGED <<pairs, program, overflow_checks, functions, out, phase, top_i,
                   main_j, result>>

\* ------------------------------------------------------------------------
\* execute_statement: one action per match arm
\* ------------------------------------------------------------------------
Executing(kind) == phase = "run" /\ ctl.c = "stmt" /\ ctl.stmt.s = kind

\* The activation on top of the stack received the value of the expression
\* it was waiting for.
Received(f) == phase = "run" /\ ctl.c = "val" /\ stack # <<>> /\ Top.f = f

\* The statement list of the activation on top of the stack: its last
\* statement yielded Ok(None) / Ok(Some(Return)).
StatementDone(f) ==
    phase = "run" /\ ctl.c = "flow" /\ ~ctl.ret /\ stack # <<>> /\ Top.f = f

\* lines 58-65
execute_Return ==
    /\ Executing("Return")
    /\ IF ctl.stmt.has_expr
       THEN Goto(Eval(ctl.stmt.expr), Push([f |-> "Return"]))
       ELSE Goto(FlowReturn(VVoid), stack)

execute_Return_value ==
    /\ Received("Return")
    /\ Goto(FlowReturn(ctl.val), Pop)

\* lines 66-70
execute_VariableDeclaration ==
    /\ Executing("VariableDeclaration")
    /\ Goto(Eval(ctl.stmt.value),
            Push([f |-> "VariableDeclaration", name |-> ctl.stmt.name]))

execute_VariableDeclaration_insert ==
    /\ Received("VariableDeclaration")
    /\ variables' = MapInsert(variables, Top.name, ctl.val)
    /\ ctl' = FlowNone
    /\ stack' = Pop
    /\ UNCHANGED <<pairs, program, overflow_checks, functions, out, phase, top_i,
                   main_j, result>>

\* Faulty variant of execute_Assignment: the contains_key test of line 72
\* is missing.
execute_Assignment_unchecked ==
    /\ Executing("Assignment")
    /\ Goto(Eval(ctl.stmt.value),
            Push([f |-> "Assignment", name |-> ctl.stmt.name]))

\* lines 71-78
execute_Assignment ==
    /\ Executing("Assignment")
    /\ IF ctl.stmt.name \notin DOMAIN variables
       THEN Fail(UndefinedVariable(ctl.stmt.name))
       ELSE Goto(Eval(ctl.stmt.value),
                 Push([f |-> "Assignment", name |-> ctl.stmt.name]))

execute_Assignment_insert ==
    /\ Received("Assignment")
    /\ variables' = MapInsert(variables, Top.name, ctl.val)
    /\ ctl' = FlowNone
    /\ stack' = Pop
    /\ UNCHANGED <<pairs, program, overflow_checks, functions, out, phase, top_i,
                   main_j, result>>

\* lines 79-82
execute_FunctionCall ==
    /\ Executing("FunctionCall")
    /\ call_function(ctl.stmt.name, ctl.stmt.arguments, TRUE)

\* lines 83-84
execute_Conditional ==
    /\ Executing("Conditional")
    /\ Goto(Eval(ctl.stmt.condition), Push([f |-> "Conditional", stmt |-> ctl.stmt]))

\* Faulty variant of execute_Conditional_branch: a condition that is not
\* a boolean counts as false.
execute_Conditional_branch_lenient ==
    /\ Received("Conditional")
    /\ LET st == Top.stmt
       IN  IF ctl.val.kind = "boolean" /\ ctl.val.b
           THEN Goto(FlowNone,
                     ReplaceTop([f |-> "block", stmts |-> st.then_branch, idx |-> 0]))
           ELSE IF st.has_else
           THEN Goto(FlowNone,
                     ReplaceTop([f |-> "block", stmts |-> st.else_branch, idx |-> 0]))
           ELSE Goto(FlowNone, Pop)

\* lines 85-96: the branch is chosen
execute_Conditional_branch ==
    /\ Received("Conditional")
    /\ IF ctl.val.kind # "boolean"
       THEN Fail(type_error("boolean", type_name(ctl.val)))
       ELSE LET st == Top.stmt
            IN  IF ctl.val.b
                THEN Goto(FlowNone,
                          ReplaceTop([f |-> "block", stmts |-> st.then_branch, idx |-> 0]))
                ELSE IF st.has_else
                THEN Goto(FlowNone,
                          ReplaceTop([f |-> "block", stmts |-> st.else_branch, idx |-> 0]))
                ELSE Goto(FlowNone, Pop)

\* lines 148-155
execute_MainBlock ==
    /\ Executing("MainBlock")
    /\ Goto(FlowNone, Push([f |-> "block", stmts |-> ctl.stmt.statements, idx |-> 0]))

\* lines 97-104 and 149-154: the statement loop of a branch or a nested
\* main block
block_next ==
    /\ StatementDone("block")
    /\ IF Top.idx < Len(Top.stmts)
       THEN Goto(Exec(Top.stmts[Top.idx + 1]), ReplaceTop([Top EXCEPT !.idx = @ + 1]))
       ELSE Goto(FlowNone, Pop)

\* lines 106-107
execute_ForLoop ==
    /\ Executing("ForLoop")
    /\ Goto(FlowNone,
            Push([f |-> "ForLoop", count |-> ctl.stmt.count, body |-> ctl.stmt.body,
                  iter |-> 0, idx |-> 0]))

\* Faulty variant of ForLoop_next: the range is 0..=count.
ForLoop_next_inclusive ==
    /\ StatementDone("ForLoop")
    /\ IF Top.iter > 0 /\ Top.idx < Len(Top.body)
       THEN Goto(Exec(Top.body[Top.idx + 1]), ReplaceTop([Top EXCEPT !.idx = @ + 1]))
       ELSE IF Top.iter <= Top.count
       THEN Goto(FlowNone, ReplaceTop([Top EXCEPT !.iter = @ + 1, !.idx = 0]))
       ELSE Goto(FlowNone, Pop)

\* lines 107-114: `for _ in 0..*count` around `for stmt in body`
ForLoop_next ==
    /\ StatementDone("ForLoop")
    /\ IF Top.iter > 0 /\ Top.idx < Len(Top.body)
       THEN Goto(Exec(Top.body[Top.idx + 1]), ReplaceTop([Top EXCEPT !.idx = @ + 1]))
       ELSE IF Top.iter < Top.count
       THEN Goto(FlowNone, ReplaceTop([Top EXCEPT !.iter = @ + 1, !.idx = 0]))
       ELSE Goto(FlowNone, Pop)

\* Faulty variant of execute_WhileLoop: the body runs once before the
\* condition is first evaluated.
execute_WhileLoop_body_first ==
    /\ Executing("WhileLoop")
    /\ Goto(FlowNone,
            Push([f |-> "WhileLoop", condition |-> ctl.stmt.condition,
                  body |-> ctl.stmt.body, idx |-> 0]))

\* lines 116-118: the condition is evaluated (before the first iteration)
execute_WhileLoop ==
    /\ Executing("WhileLoop")
    /\ Goto(Eval(ctl.stmt.condition),
            Push([f |-> "WhileLoop", condition |-> ctl.stmt.condition,
                  body |-> ctl.stmt.body, idx |-> 0]))

\* lines 119-133: the value of the condition
WhileLoop_test ==
    /\ Received("WhileLoop")
    /\ IF ctl.val.kind # "boolean"
       THEN Fail(type_error("boolean", type_name(ctl.val)))
       ELSE IF ctl.val.b
       THEN Goto(FlowNone, ReplaceTop([Top EXCEPT !.idx = 0]))
       ELSE Goto(FlowNone, Pop)

\* lines 135-140: the next statement of the body, or the condition again
WhileLoop_next ==
    /\ StatementDone("WhileLoop")
    /\ IF Top.idx < Len(Top.body)
       THEN Goto(Exec(Top.body[Top.idx + 1]), ReplaceTop([Top EXCEPT !.idx = @ + 1]))
       ELSE Goto(Eval(Top.condition), stack)

\* Faulty variant of propagate_return: the signal is dropped and the
\* enclosing statement list goes on.
propagate_return_dropped ==
    /\ phase = "run"
    /\ ctl.c = "flow"
    /\ ctl.ret
    /\ stack # <<>>
    /\ Top.f \in {"block", "ForLoop", "WhileLoop"}
    /\ Goto(FlowNone, stack)

\* lines 98-100, 109-111, 136-138, 150-152: `return Ok(Some(flow))`
propagate_return ==
    /\ phase = "run"
    /\ ctl.c = "flow"
    /\ ctl.ret
    /\ stack # <<>>
    /\ Top.f \in {"block", "ForLoop", "WhileLoop"}
    /\ Goto(ctl, Pop)

\* lines 143-147
execute_Speak ==
    /\ Executing("Speak")
    /\ Goto(Eval(ctl.stmt.expr), Push([f |-> "Speak"]))

execute_Speak_println ==
    /\ Received("Speak")
    /\ out' = Append(out, ctl.val)
    /\ ctl' = FlowNone
    /\ stack' = Pop
    /\ UNCHANGED <<pairs, program, overflow_checks, variables, functions, phase, top_i,
                   main_j, result>>

\* line 156
execute_FunctionDeclaration ==
    /\ Executing("FunctionDeclaration")
    /\ Goto(FlowNone, stack)

\* ------------------------------------------------------------------------
\* evaluate_expression: one action per match arm
\* ------------------------------------------------------------------------
Evaluating(kind) == phase = "run" /\ ctl.c = "expr" /\ ctl.expr.e = kind

\* lines 216-223
evaluate_Literal ==
    /\ Evaluating("Literal")
    /\ Goto(Val(ctl.expr.val), stack)

\* lines 224-229
evaluate_Identifier ==
    /\ Evaluating("Identifier")
    /\ IF ctl.expr.name \in DOMAIN variables
       THEN Goto(Val(variables[ctl.expr.name]), stack)
       ELSE Fail(UndefinedVariable(ctl.expr.name))

\* lines 230-231: the left operand first
evaluate_Binary ==
    /\ Evaluating("Binary")
    /\ Goto(Eval(ctl.expr.left),
            Push([f |-> "Binary.left", op |-> ctl.expr.op, right |-> ctl.expr.right]))

\* line 232: then the right operand
evaluate_Binary_right ==
    /\ Received("Binary.left")
    /\ Goto(Eval(Top.right),
            ReplaceTop([f |-> "Binary.right", op |-> Top.op, left_val |-> ctl.val]))

\* line 233
evaluate_Binary_apply ==
    /\ Received("Binary.right")
    /\ Deliver(apply_binary_operator(Top.op, Top.left_val, ctl.val, overflow_checks),
               Pop)

\* lines 235-236
evaluate_Unary ==
    /\ Evaluating("Unary")
    /\ Goto(Eval(ctl.expr.operand), Push([f |-> "Unary", op |-> ctl.expr.op]))

\* line 237
evaluate_Unary_apply ==
    /\ Received("Unary")
    /\ Deliver(apply_unary_operator(Top.op, ctl.val, overflow_checks), Pop)

\* lines 239-245: a line is read and trimmed, or the read fails
evaluate_Input ==
    /\ Evaluating("Input")
    /\ \/ \E line \in InputLines : Goto(Val(VString(Trim(line))), stack)
       \/ Fail(IoError)

\* line 246
evaluate_FunctionCall ==
    /\ Evaluating("FunctionCall")
    /\ call_function(ctl.expr.name, ctl.expr.arguments, FALSE)

Next ==
    \/ interpret_register
    \/ interpret_next
    \/ execute_Return
    \/ execute_Return_value
    \/ execute_VariableDeclaration
    \/ execute_VariableDeclaration_insert
    \/ execute_Assignment
    \/ execute_Assignment_insert
    \/ execute_FunctionCall
    \/ execute_Conditional
    \/ execute_Conditional_branch
    \/ execute_MainBlock
    \/ block_next
    \/ execute_ForLoop
    \/ ForLoop_next
    \/ execute_WhileLoop
    \/ WhileLoop_test
    \/ WhileLoop_next
    \/ propagate_return
    \/ execute_Speak
    \/ execute_Speak_println
    \/ execute_FunctionDeclaration
    \/ call_bind
    \/ call_next_statement
    \/ call_fall_through
    \/ call_return
    \/ evaluate_Literal
    \/ evaluate_Identifier
    \/ evaluate_Binary
    \/ evaluate_Binary_right
    \/ evaluate_Binary_apply
    \/ evaluate_Unary
    \/ evaluate_Unary_apply
    \/ evaluate_Input
    \/ evaluate_FunctionCall

Spec == Init /\ [][Next]_vars

\* ------------------------------------------------------------------------
\* parse_program: the lowering of a parse tree, one statement per step
\* ------------------------------------------------------------------------

\* lines 16-18: the statement children of the program nodes
RECURSIVE ProgramStatements(_)
ProgramStatements(ps) ==
    IF ps = <<>> THEN <<>>
    ELSE (IF Head(ps).rule = "program" THEN FilterRule(Head(ps).inner, "statement")
          ELSE <<>>)
         \o ProgramStatements(Tail(ps))

\* Before parse_program: the parse tree is there, `statements` (held in
\* program) is empty, the interpreter is not constructed yet.
ParserInit ==
    /\ pairs \in ParseTrees
    /\ program = <<>>
    /\ overflow_checks \in BOOLEAN
    /\ variables = EmptyMap
    /\ functions = EmptyMap
    /\ out = <<>>
    /\ phase = "parse"
    /\ top_i = 1
    /\ main_j = 0
    /\ stack = <<>>
    /\ ctl = Idle
    /\ result = Running

\* line 19: statements.push(parse_statement(inner)?)
parse_program_statement ==
    /\ phase = "parse"
    /\ Len(program) < Len(ProgramStatements(pairs))
    /\ LET lowered == parse_statement(ProgramStatements(pairs)[Len(program) + 1])
       IN  IF lowered.tag = "err" THEN Fail(lowered.err)
           ELSE IF lowered.tag = "panic" THEN Abort
           ELSE /\ program' = Append(program, lowered.val)
                /\ UNCHANGED <<pairs, overflow_checks, variables, functions, out,
                               phase, top_i, main_j, stack, ctl, result>>

\* line 24: Ok(Program { statements })
parse_program_return ==
    /\ phase = "parse"
    /\ Len(program) = Len(ProgramStatements(pairs))
    /\ phase' = "parsed"
    /\ UNCHANGED <<pairs, program, overflow_checks, variables, functions, out,
                   top_i, main_j, stack, ctl, result>>

ParserNext ==
    \/ parse_program_statement
    \/ parse_program_return

ParserSpec == ParserInit /\ [][ParserNext]_vars

\* ========================================================================
\* Properties
\* ========================================================================

\* A call_function activation begins / ends in this step.
CallBegins ==
    /\ Len(stack') = Len(stack) + 1
    /\ stack'[Len(stack')].f = "call"

CallCompletes ==
    /\ stack # <<>>
    /\ Top.f = "call"
    /\ stack' = Pop
    /\ phase' = "run"

ParamSet(frame) == {frame.params[k] : k \in 1..Len(frame.params)}

\* ---- C1 ----
\* When a call begins, the activation records for every parameter name the
\* binding the table has at that moment (or its absence).
C1_SnapshotAtEntry ==
    CallBegins =>
        LET fr == stack'[Len(stack')]
        IN  /\ Len(fr.old_vars) = Len(fr.params)
            /\ \A k \in 1..Len(fr.params) :
                /\ fr.old_vars[k].param = fr.params[k]
                /\ fr.old_vars[k].some = (fr.params[k] \in DOMAIN variables)
                /\ fr.old_vars[k].some => fr.old_vars[k].val = variables[fr.params[k]]

\* While the activation is on the stack its record does not change.
C1_SnapshotKept ==
    \A k \in 1..Len(stack) :
        (k <= Len(stack') /\ stack[k].f = "call") =>
            /\ stack'[k].f = "call"
            /\ stack'[k].params = stack[k].params
            /\ stack'[k].old_vars = stack[k].old_vars

\* When the call completes (fall-through or return), every parameter name
\* has its pre-call binding or none, and every other name is as the body
\* left it.
C1_RestoredAtExit ==
    CallCompletes =>
        LET fr == Top
        IN  /\ \A k \in 1..Len(fr.params) :
                IF fr.old_vars[k].some
                THEN /\ fr.params[k] \in DOMAIN variables'
                     /\ variables'[fr.params[k]] = fr.old_vars[k].val
                ELSE fr.params[k] \notin DOMAIN variables'
            /\ \A n \in (DOMAIN variables \cup DOMAIN variables') \ ParamSet(fr) :
                /\ n \in DOMAIN variables
                /\ n \in DOMAIN variables'
                /\ variables'[n] = variables[n]

\* C1: after every function call that completes, by falling off the end of
\* the body or by a return, each parameter name is bound to exactly the
\* value it had immediately before the call, or is unbound if it was
\* unbound, and every name that is not a parameter keeps the value the body
\* last wrote to it.
C1_ParametersRestored ==
    [][C1_SnapshotAtEntry /\ C1_SnapshotKept /\ C1_RestoredAtExit]_vars

C1_Program ==
    <<DeclG,
      FunctionDeclaration("f", <<"a", "b">>,
        <<VariableDeclaration("a", I(5)), Return(Id("a")), Speak(I(7))>>),
      VariableDeclaration("a", I(3)),
      Speak(CallE("f", <<CallE("g", <<>>), Id("x")>>)),
      Speak(Id("a"))>>

\* f(a, b) was called with a bound to 3 and b unbound; its arguments wrote
\* the global x, its body overwrote a and returned; afterwards a is 3 again,
\* b is unbound and x is kept.
C1_Witness ==
    /\ program = C1_Program
    /\ phase = "done"
    /\ result.tag = "ok"
    /\ out = <<VInteger(6), VInteger(5), VInteger(3)>>
    /\ DOMAIN variables = {"a", "x"}
    /\ variables["a"] = VInteger(3)
    /\ variables["x"] = VInteger(5)

\* ---- C2 ----
\* C2: a return signal inside a function body is handed unchanged from each
\* enclosing conditional branch, counted loop, while loop and nested main
\* block to the next, with no statement executed and nothing written on
\* the way; at the innermost enclosing call it becomes that call's result
\* and is not handed further to the caller's statement list.
C2_ReturnPropagates ==
    [][ /\ (phase = "run" /\ ctl.c = "val" /\ stack # <<>> /\ Top.f = "Return") =>
             (ctl' = FlowReturn(ctl.val) /\ stack' = Pop)
        /\ (phase = "run" /\ ctl.c = "flow" /\ ctl.ret /\ stack # <<>>) =>
             /\ Top.f \in {"block", "ForLoop", "WhileLoop", "call"}
             /\ stack' = Pop
             /\ out' = out
             /\ functions' = functions
             /\ phase' = "run"
             /\ IF Top.f = "call"
                THEN ctl' = IF Top.as_stmt THEN FlowNone ELSE Val(ctl.val)
                ELSE ctl' = ctl /\ variables' = variables
      ]_vars

C2_Program ==
    <<DeclG, FunctionDeclaration("f", <<"a">>, NestedReturn),
      VariableDeclaration("a", I(3)),
      Speak(CallE("f", <<I(1)>>)),
      Speak(Id("a"))>>

\* The return below the loops, the conditional and the nested main block
\* of f ended the call with its value: none of the statements after it ran
\* (none printed 7), and the caller went on.
C2_Witness ==
    /\ program = C2_Program
    /\ phase = "done"
    /\ result.tag = "ok"
    /\ out = <<VInteger(1), VInteger(3)>>

\* ---- C3 ----
\* C3: when a statement of a top-level main block yields a return signal
\* outside any function call, the statements that follow it in that main
\* block are not executed, and interpret reports no error because of it.
C3_TopLevelReturnEndsBlock ==
    [][ (phase = "run" /\ stack = <<>> /\ ctl.c = "flow" /\ ctl.ret) =>
            /\ result'.tag # "err"
            /\ main_j > 0 => ~(ctl'.c = "stmt" /\ top_i' = top_i)
      ]_vars

\* ---- binary operators ----
\* apply_binary_operator is about to be applied to two evaluated operands.
Applying == phase = "run" /\ ctl.c = "val" /\ stack # <<>> /\ Top.f = "Binary.right"

Applied == apply_binary_operator(Top.op, Top.left_val, ctl.val, overflow_checks)

\* ---- C4 ----
\* C4: on two values of different kinds `==` yields boolean false and `!=`
\* yields boolean true, and neither yields an error.
C4_CrossKindEquality ==
    (Applying /\ Top.op \in {"Equal", "NotEqual"} /\ Top.left_val.kind # ctl.val.kind)
        => Applied = Ok(VBoolean(Top.op = "NotEqual"))

\* ---- C5 ----
\* C5: on two values of the same kind `==` yields, without error, boolean
\* true exactly when the two are structurally equal, and `!=` the negation.
C5_SameKindEquality ==
    (Applying /\ Top.op \in {"Equal", "NotEqual"} /\ Top.left_val.kind = ctl.val.kind)
        => Applied = Ok(VBoolean(ValueEq(Top.left_val, ctl.val) = (Top.op = "Equal")))

\* ---- C6 ----
C6_BothNumeric(l, r) ==
    l.kind \in {"integer", "float"} /\ r.kind \in {"integer", "float"}

\* The combinations the specification lists as defined.
C6_Listed(op, l, r) ==
    \/ op \in {"Add", "Subtract", "Multiply", "Divide"} /\ C6_BothNumeric(l, r)
    \/ op = "Add" /\ l.kind = "string" /\ r.kind = "string"
    \/ op \in {"Greater", "Less"} /\ l.kind = "integer" /\ r.kind = "integer"
    \/ op \in {"Equal", "NotEqual"}

\* C6: a combination of operator and operand kinds that is not listed
\* (arithmetic on integers and floats, text + text, > and < on two
\* integers, == and !=) yields the InvalidOperation error carrying the
\* operator and both kind names, never a value.  (Division by a zero right
\* operand, which yields DivisionByZero for every left operand, is left
\* aside here.)
C6_InvalidOperation ==
    (/\ Applying
     /\ ~C6_Listed(Top.op, Top.left_val, ctl.val)
     /\ ~(Top.op = "Divide" /\ ctl.val.kind \in {"integer", "float"} /\ ctl.val.i = 0))
        => Applied = Err(invalid_operation(Top.op, type_name(Top.left_val),
                                           type_name(ctl.val)))

\* ---- C7 ----
C7_Zero(v) == v.kind \in {"integer", "float"} /\ v.i = 0

\* C7: `/` with an integer 0 or a float zero on the right yields the
\* DivisionByZero error whatever the left operand is; no division is
\* performed, no value results and nothing is written; the run of
\* speak(10 / 0) ends with that error and no output.
C7_DivisionByZero ==
    [][ /\ (Applying /\ Top.op = "Divide" /\ C7_Zero(ctl.val)) =>
             /\ Applied = Err(DivisionByZero)
             /\ phase' = "done"
             /\ result' = Finished("err", DivisionByZero)
             /\ out' = out
             /\ variables' = variables
        /\ (program' = DivideTenByZero /\ phase' = "done") =>
             (out' = <<>> /\ result' = Finished("err", DivisionByZero))
      ]_vars

C7_Witness ==
    /\ program = DivideTenByZero
    /\ phase = "done"
    /\ result = Finished("err", DivisionByZero)
    /\ out = <<>>

\* ---- C8 ----
\* C8: a plain assignment to a name with no binding fails at once with
\* UndefinedVariable naming it, before its value expression is evaluated
\* (so whatever that expression is) and with the table unchanged; a
\* declaration evaluates its initializer whether or not the name is bound,
\* and once the value is there the name is bound to it.
C8_AssignmentNeedsBinding ==
    [][ /\ (Executing("Assignment") /\ ctl.stmt.name \notin DOMAIN variables) =>
             /\ phase' = "done"
             /\ result' = Finished("err", UndefinedVariable(ctl.stmt.name))
             /\ variables' = variables
             /\ out' = out
        /\ Executing("VariableDeclaration") =>
             /\ phase' = "run"
             /\ ctl' = Eval(ctl.stmt.value)
             /\ stack' = Push([f |-> "VariableDeclaration", name |-> ctl.stmt.name])
        /\ Received("VariableDeclaration") =>
             /\ phase' = "run"
             /\ ctl' = FlowNone
             /\ DOMAIN variables' = DOMAIN variables \cup {Top.name}
             /\ variables'[Top.name] = ctl.val
             /\ \A n \in DOMAIN variables \ {Top.name} : variables'[n] = variables[n]
      ]_vars

C8_Program == <<DeclG, Assignment("x", CallE("g", <<>>)), Speak(Id("x"))>>

\* x = g() with x unbound ended with UndefinedVariable(x): g, which would
\* have declared x and printed, never ran.
C8_Witness ==
    /\ program = C8_Program
    /\ phase = "done"
    /\ result = Finished("err", UndefinedVariable("x"))
    /\ variables = EmptyMap
    /\ out = <<>>

\* ---- C9 ----
CallStarting ==
    /\ phase = "run"
    /\ \/ ctl.c = "stmt" /\ ctl.stmt.s = "FunctionCall"
       \/ ctl.c = "expr" /\ ctl.expr.e = "FunctionCall"

CallNode == IF ctl.c = "stmt" THEN ctl.stmt ELSE ctl.expr

\* C9: a call of a registered function with a number of arguments other
\* than its number of parameters fails at once with ArgumentMismatch: no
\* argument is evaluated, no parameter bound, no body statement run.  A call
\* of a name that is not in the function table fails with UndefinedFunction.
C9_ArgumentCount ==
    [][ CallStarting =>
          IF CallNode.name \notin DOMAIN functions
          THEN /\ phase' = "done"
               /\ result' = Finished("err", UndefinedFunction(CallNode.name))
               /\ variables' = variables
               /\ out' = out
          ELSE Len(CallNode.arguments) # Len(functions[CallNode.name].parameters) =>
               /\ phase' = "done"
               /\ result' = Finished("err", ArgumentMismatch)
               /\ variables' = variables
               /\ out' = out
      ]_vars

C9_Program ==
    <<DeclG,
      FunctionDeclaration("f", <<"a">>,
        <<VariableDeclaration("a", I(5)), Return(Id("a")), Speak(I(7))>>),
      VariableDeclaration("a", I(3)),
      FunctionCall("f", <<CallE("g", <<>>), Id("x")>>),
      Speak(Id("a"))>>

\* f(a) called with the two arguments g() and x ended with ArgumentMismatch:
\* g never ran (x is unbound, nothing was printed) and a is still 3.
C9_Witness ==
    /\ program = C9_Program
    /\ phase = "done"
    /\ result = Finished("err", ArgumentMismatch)
    /\ out = <<>>
    /\ DOMAIN variables = {"a"}
    /\ variables["a"] = VInteger(3)

\* ---- C10 ----
C10_Declared(prog, name) ==
    {k \in 1..Len(prog) : prog[k].s = "FunctionDeclaration" /\ prog[k].name = name}

C10_Last(prog, name) ==
    prog[CHOOSE k \in C10_Declared(prog, name) :
            \A m \in C10_Declared(prog, name) : m <= k]

C10_Names(prog) ==
    {prog[k].name : k \in {m \in 1..Len(prog) : prog[m].s = "FunctionDeclaration"}}

\* C10: no statement is executed before every top-level declaration is
\* registered; from then on the function table maps each declared name to
\* the last top-level declaration of that name, and every call on the stack
\* runs the parameters and body of that declaration.
C10_LastDeclarationWins ==
    /\ phase = "register" =>
         (ctl = Idle /\ stack = <<>> /\ out = <<>> /\ variables = EmptyMap)
    /\ phase # "register" =>
         /\ DOMAIN functions = C10_Names(program)
         /\ \A n \in DOMAIN functions :
              /\ functions[n].parameters = C10_Last(program, n).parameters
              /\ functions[n].body = C10_Last(program, n).body
    /\ \A k \in 1..Len(stack) :
         stack[k].f = "call" =>
              /\ stack[k].name \in C10_Names(program)
              /\ stack[k].params = C10_Last(program, stack[k].name).parameters
              /\ stack[k].body = C10_Last(program, stack[k].name).body

C10_Program ==
    <<Speak(CallE("f", <<>>)),
      FunctionDeclaration("f", <<>>, <<Return(I(1))>>),
      FunctionDeclaration("f", <<>>, <<Return(I(2))>>)>>

\* The call of f that precedes both declarations of f returned 2, the
\* value of the later one.
C10_Witness ==
    /\ program = C10_Program
    /\ phase = "done"
    /\ result.tag = "ok"
    /\ out = <<VInteger(2)>>

\* ---- C11 ----
\* The errors the step out of the current state yields, one per place of
\* the source that constructs or receives an Err (the failure of a read
\* apart, which depends on the input).
C11_Yields ==
    IF phase # "run" THEN {}
    ELSE IF Evaluating("Identifier")
    THEN IF ctl.expr.name \in DOMAIN variables THEN {}
         ELSE {UndefinedVariable(ctl.expr.name)}
    ELSE IF Executing("Assignment")
    THEN IF ctl.stmt.name \in DOMAIN variables THEN {}
         ELSE {UndefinedVariable(ctl.stmt.name)}
    ELSE IF CallStarting
    THEN IF CallNode.name \notin DOMAIN functions
         THEN {UndefinedFunction(CallNode.name)}
         ELSE IF Len(CallNode.arguments) # Len(functions[CallNode.name].parameters)
         THEN {ArgumentMismatch}
         ELSE {}
    ELSE IF Received("Conditional") \/ Received("WhileLoop")
    THEN IF ctl.val.kind = "boolean" THEN {}
         ELSE {type_error("boolean", ctl.val.kind)}
    ELSE IF Applying
    THEN IF Applied.tag = "err" THEN {Applied.err} ELSE {}
    ELSE IF Received("Unary")
    THEN LET r == apply_unary_operator(Top.op, ctl.val, overflow_checks)
         IN  IF r.tag = "err" THEN {r.err} ELSE {}
    ELSE {}

\* an undefined variable in the body of f, called in a branch in a counted
\* loop in a main block
C11_Program ==
    C11_ErrorProgram(Speak(Id("z")),
        <<MainBlock(<<ForLoop(2,
            <<Conditional(B(TRUE), <<FunctionCall("f", <<I(1)>>), Speak(I(9))>>,
                          FALSE, <<>>),
              Speak(I(9))>>)>>)>>)

\* C11: the step at which a statement or an expression yields an error, at
\* any nesting depth, ends the run with that error: interpret returns it, the
\* output and the variable table are as they were at that step, and no step
\* follows (no later statement, output or write to the variable table).
C11_ErrorEndsRun ==
    [][ /\ \A e \in C11_Yields : result' = Finished("err", e)
        /\ result'.tag = "err" =>
             /\ phase' = "done"
             /\ out' = out
             /\ variables' = variables
             /\ stack' = <<>>
             /\ ctl' = Idle
        /\ result.tag # "err"
        /\ (program' = C11_Program /\ phase' = "done") =>
             /\ result' = Finished("err", UndefinedVariable("z"))
             /\ out' = <<VInteger(1), VInteger(1)>>
             /\ variables' = MapInsert(EmptyMap, "a", VInteger(1))
      ]_vars

\* The run of C11_Program ended with the error of the body of f: the
\* parameter a is still bound to the argument, nothing was printed after
\* the two values printed before the error.
C11_Witness ==
    /\ program = C11_Program
    /\ phase = "done"
    /\ result = Finished("err", UndefinedVariable("z"))
    /\ out = <<VInteger(1), VInteger(1)>>
    /\ variables = MapInsert(EmptyMap, "a", VInteger(1))

\* ---- C12 ----
RECURSIVE C12_Repeat(_, _)
C12_Repeat(s, n) == IF n <= 0 THEN <<>> ELSE s \o C12_Repeat(s, n - 1)

\* C12: a counted loop with count n whose body yields neither an error nor
\* a return runs its whole body n times when n > 0 and not at all when
\* n <= 0; a return signal of a body statement ends the loop at that
\* statement and is passed on unchanged.
C12_CountedLoop ==
    [][ /\ \A n \in -1..3 :
             (program' = C12_Loop(n) /\ phase' = "done") =>
                 /\ result'.tag = "ok"
                 /\ out' = C12_Repeat(<<VInteger(1), VInteger(2)>>, n)
                              \o <<VInteger(3)>>
        /\ (program' = CountThree /\ phase' = "done") =>
             out' = C12_Repeat(<<VString(<<"h", "i">>)>>, 3)
        /\ (program' = C12_ReturnProgram /\ phase' = "done") =>
             out' = <<VInteger(0), VInteger(9), VInteger(1), VInteger(1), VInteger(8)>>
        \* the loop ends without a signal only after `count` whole iterations
        /\ (StatementDone("ForLoop") /\ stack' = Pop) =>
             /\ Top.iter = (IF Top.count > 0 THEN Top.count ELSE 0)
             /\ Top.iter > 0 => Top.idx = Len(Top.body)
             /\ ctl' = FlowNone
        \* a return signal leaves the loop as it is
        /\ (phase = "run" /\ ctl.c = "flow" /\ ctl.ret /\ stack # <<>>
               /\ Top.f = "ForLoop") =>
             /\ ctl' = ctl
             /\ stack' = Pop
             /\ out' = out
             /\ variables' = variables
      ]_vars

\* The loop of f printed x and 9 in its first iteration, x in its second,
\* and returned x from there: neither 9 nor 7 was printed after it.
C12_Witness ==
    /\ program = C12_ReturnProgram
    /\ phase = "done"
    /\ result.tag = "ok"
    /\ out = <<VInteger(0), VInteger(9), VInteger(1), VInteger(1), VInteger(8)>>

\* ---- C13 ----
\* The body of the while loop on top of the stack is about to begin.
C13_BodyBegins ==
    /\ phase = "run"
    /\ ctl = FlowNone
    /\ stack # <<>>
    /\ Top.f = "WhileLoop"
    /\ Top.idx = 0

\* C13: a while loop evaluates its condition before every iteration, the
\* first included; the body begins only after an evaluation that yielded
\* true, the loop ends at the first evaluation that yields false, and an
\* evaluation that yields a non-boolean fails with TypeError (expected
\* "boolean") at whichever iteration it occurs.  With x = 0, the condition
\* x < 3 and a body ending with x = x + 1, the body runs three times and x
\* ends at 3.
C13_WhileLoop ==
    [][ \* the condition first
        /\ Executing("WhileLoop") =>
             (ctl' = Eval(ctl.stmt.condition) /\ out' = out /\ variables' = variables)
        \* and again after every whole body
        /\ (StatementDone("WhileLoop") /\ Top.idx >= Len(Top.body)) =>
             (ctl' = Eval(Top.condition) /\ stack' = stack)
        \* what the value of the condition decides
        /\ Received("WhileLoop") =>
             IF ctl.val.kind # "boolean"
             THEN result' = Finished("err", type_error("boolean", ctl.val.kind))
             ELSE IF ctl.val.b
             THEN C13_BodyBegins' /\ Len(stack') = Len(stack)
             ELSE ctl' = FlowNone /\ stack' = Pop
        \* the body begins after a true evaluation only
        /\ (C13_BodyBegins' /\ ~C13_BodyBegins) =>
             (Received("WhileLoop") /\ ctl.val = VBoolean(TRUE))
        /\ (program' = WhileThree /\ phase' = "done") =>
             /\ result'.tag = "ok"
             /\ out' = <<VInteger(0), VInteger(1), VInteger(2), VInteger(3)>>
             /\ variables'["x"] = VInteger(3)
        /\ (program' = C13_LaterNonBoolean /\ phase' = "done") =>
             /\ result' = Finished("err", type_error("boolean", "integer"))
             /\ out' = <<VInteger(1), VInteger(2)>>
        /\ \A c \in {B(FALSE), I(0), F(0, 1)} :
             (program' = <<WhileLoop(c, <<Speak(I(1))>>)>> /\ phase' = "done") =>
                 out' = <<>>
      ]_vars

\* The loop of WhileThree printed x in each of its three iterations and
\* left x at 3.
C13_Witness ==
    /\ program = WhileThree
    /\ phase = "done"
    /\ result.tag = "ok"
    /\ out = <<VInteger(0), VInteger(1), VInteger(2), VInteger(3)>>
    /\ variables["x"] = VInteger(3)

\* ---- C14 ----
\* The kind names of the non-boolean conditions
C14_NonBoolean ==
    {<<I(1), "integer">>, <<F(1, 2), "float">>, <<S(<<>>), "string">>,
     <<Ch("a"), "char">>, <<CallE("nothing", <<>>), "void">>}

\* The statement list the activation on top of the stack runs next
C14_Runs(stmts) ==
    /\ ctl' = FlowNone
    /\ stack' = ReplaceTop([f |-> "block", stmts |-> stmts, idx |-> 0])

\* C14: a conditional whose condition is true runs exactly its then-branch;
\* one whose condition is false runs exactly its else-branch, or nothing
\* when it has none; a condition of any other kind fails with TypeError
\* (expected "boolean", found the kind name) and runs no statement of either
\* branch.
C14_Conditional ==
    [][ /\ Received("Conditional") =>
             /\ out' = out
             /\ variables' = variables
             /\ IF ctl.val.kind # "boolean"
                THEN result' = Finished("err", type_error("boolean", ctl.val.kind))
                ELSE IF ctl.val.b THEN C14_Runs(Top.stmt.then_branch)
                ELSE IF Top.stmt.has_else THEN C14_Runs(Top.stmt.else_branch)
                ELSE ctl' = FlowNone /\ stack' = Pop
        /\ \A has_else \in BOOLEAN :
             /\ (program' = C14_Program(B(TRUE), has_else) /\ phase' = "done") =>
                  out' = <<VInteger(1), VInteger(4), VInteger(3)>>
             /\ (program' = C14_Program(B(FALSE), has_else) /\ phase' = "done") =>
                  out' = (IF has_else THEN <<VInteger(2), VInteger(5)>> ELSE <<>>)
                             \o <<VInteger(3)>>
             /\ \A p \in C14_NonBoolean :
                  (program' = C14_Program(p[1], has_else) /\ phase' = "done") =>
                      /\ result' = Finished("err", type_error("boolean", p[2]))
                      /\ out' = <<>>
      ]_vars

\* A conditional on the void value of a call failed with TypeError
\* (expected boolean, found void) and printed nothing.
C14_Witness ==
    /\ program = C14_Program(CallE("nothing", <<>>), TRUE)
    /\ phase = "done"
    /\ result = Finished("err", type_error("boolean", "void"))
    /\ out = <<>>

\* ---- C15 ----
\* The lowering is about to lower a statement node
C15_Lowering ==
    /\ phase = "parse"
    /\ Len(program) < Len(ProgramStatements(pairs))
    /\ ProgramStatements(pairs)[Len(program) + 1].inner # <<>>

\* the node under that statement node
C15_Node == ProgramStatements(pairs)[Len(program) + 1].inner[1]

\* Well-formed call nodes, each with the name and the argument expressions
\* its AST node has to carry
C15_Calls ==
    {<<PFunctionCall("add", <<>>), "add", <<>>>>,
     <<PFunctionCall("add", <<PExpression(PInteger(<<"2">>)), PNested(PInteger(<<"3">>))>>),
       "add", <<I(2), I(3)>>>>,
     <<PFunctionCall("add",
          <<PNested(PIdentifier("a")), Pair("comma", ",", <<>>),
            PNested(Pair("string_literal", <<"\"", "h", "i", "\"">>, <<>>))>>),
       "add", <<Id("a"), S(<<"h", "i">>)>>>>}

\* a call node that is a statement lowers to Statement::FunctionCall
C15_StatementPosition ==
    \A c \in C15_Calls :
        (C15_Lowering /\ C15_Node = c[1]) =>
            program' = Append(program, FunctionCall(c[2], c[3]))

\* a call node that is the expression of a speak statement, or an operand
\* in it, lowers to Expression::FunctionCall
C15_ExpressionPosition ==
    \A c \in C15_Calls :
        (C15_Lowering /\ C15_Node.rule = "speak_statement") =>
            /\ C15_Node.inner \in {<<PExpression(c[1])>>, <<PNested(c[1])>>} =>
                 program' = Append(program, Speak(CallE(c[2], c[3])))
            /\ C15_Node.inner = <<PExpression(PBinary(c[1], "+", PInteger(<<"1">>)))>> =>
                 program' = Append(program, Speak(Bin(CallE(c[2], c[3]), "Add", I(1))))

\* C15: lowering a well-formed function-call node yields a function-call
\* AST node with the called name and the lowered arguments in source order,
\* as a statement and in expression position alike; it does not fail.
C15_FunctionCallLowers ==
    [][C15_StatementPosition /\ C15_ExpressionPosition]_vars

\* C15, the statement position alone
C15_StatementCallLowers == [][C15_StatementPosition]_vars

\* ---- C16 ----
C16_Operators == {"Add", "Subtract", "Multiply", "Divide"}

\* The combinations the claim lists
C16_Listed(op, l, r) ==
    /\ op \in C16_Operators
    /\ \/ IsNumeric(l) /\ IsNumeric(r) /\ (op = "Divide" => ~C7_Zero(r))
       \/ op = "Add" /\ l.kind = "string" /\ r.kind = "string"

C16_BothIntegers(l, r) == l.kind = "integer" /\ r.kind = "integer"

\* the mathematical result on two integers
C16_Exact(op, l, r) ==
    IF op = "Add" THEN l.i + r.i
    ELSE IF op = "Subtract" THEN l.i - r.i
    ELSE IF op = "Multiply" THEN l.i * r.i
    ELSE TruncDiv(l.i, r.i)

\* the float result after widening
C16_Float(op, l, r) ==
    IF op = "Add" THEN FAdd(Widen(l), Widen(r))
    ELSE IF op = "Subtract" THEN FSub(Widen(l), Widen(r))
    ELSE IF op = "Multiply" THEN FMul(Widen(l), Widen(r))
    ELSE FDiv(Widen(l), Widen(r))

\* two integers whose mathematical result is not a 64-bit integer
C16_OutOfRange(op, l, r) ==
    /\ C16_BothIntegers(l, r)
    /\ (C16_Exact(op, l, r) < IntMin \/ C16_Exact(op, l, r) > IntMax)

\* The step that applies the operator to l and r hands a value of the
\* kind and content the claim states to the enclosing activation.
C16_Yields(op, l, r) ==
    /\ phase' = "run"
    /\ ctl'.c = "val"
    /\ IF C16_BothIntegers(l, r)
       THEN /\ ctl'.val.kind = "integer"
            /\ ~C16_OutOfRange(op, l, r) => ctl'.val = VInteger(C16_Exact(op, l, r))
       ELSE IF l.kind = "string"
       THEN ctl'.val = VString(l.s \o r.s)
       ELSE ctl'.val = C16_Float(op, l, r)

\* C16: for + - * and / with a non-zero right operand, integer op integer
\* yields an integer, any other pair of numbers a float computed after
\* widening the integer operand, and + on two texts their concatenation in
\* left-right order; none of these yields an error.
C16_Arithmetic ==
    [][ /\ (Applying /\ C16_Listed(Top.op, Top.left_val, ctl.val)) =>
             C16_Yields(Top.op, Top.left_val, ctl.val)
        /\ (program' = C16_Scenario /\ phase' = "done") =>
             (result'.tag = "ok" /\ out' = <<VInteger(8)>>)
      ]_vars

\* C16 apart from the pairs of integers whose result is out of range
C16_ArithmeticInRange ==
    [][ /\ (Applying /\ C16_Listed(Top.op, Top.left_val, ctl.val)
               /\ ~C16_OutOfRange(Top.op, Top.left_val, ctl.val)) =>
             C16_Yields(Top.op, Top.left_val, ctl.val)
        /\ (program' = C16_Scenario /\ phase' = "done") =>
             (result'.tag = "ok" /\ out' = <<VInteger(8)>>)
      ]_vars

\* ---- C17 ----
\* An argument of the call on top of the stack that is an identifier is
\* about to be evaluated, and an earlier parameter of the call has its name.
C17_ShadowedArgument ==
    /\ Evaluating("Identifier")
    /\ stack # <<>>
    /\ Top.f = "call"
    /\ Top.bound < Len(Top.arguments)
    /\ ctl.expr = Top.arguments[Top.bound + 1]
    /\ \E k \in 1..Top.bound : Top.params[k] = ctl.expr.name

\* The caller's binding of that name when the call began: call_function's
\* snapshot of it
C17_CallerBinding ==
    LET k == CHOOSE j \in 1..Len(Top.old_vars) : Top.old_vars[j].param = ctl.expr.name
    IN  Top.old_vars[k]

\* C17: every argument expression of a call is evaluated against the
\* caller's bindings as they were when the call began; binding an earlier
\* parameter does not change what a later argument evaluates to.  With a
\* global a = 10 and f(a, b), the call f(1, a) binds b to 10.
C17_ArgumentsSeeCallerBindings ==
    [][ /\ C17_ShadowedArgument =>
             IF C17_CallerBinding.some
             THEN ctl' = Val(C17_CallerBinding.val)
             ELSE result' = Finished("err", UndefinedVariable(ctl.expr.name))
        /\ (program' = C17_Program /\ phase' = "done") =>
             out' = <<VInteger(10), VInteger(10)>>
      ]_vars

\* ---- C18 ----
\* The outcome is an integer value or a ValyrianError
C18_IntegerOrError(r) ==
    \/ r.tag = "ok" /\ r.val.kind = "integer"
    \/ r.tag = "err"

\* C18: integer arithmetic never traps: on any two 64-bit integers + - *
\* and / with a non-zero right operand, and unary - on any 64-bit integer,
\* return an integer value or a ValyrianError, at the range limits too; the
\* run never ends in a panic.
C18_NeverTraps ==
    /\ (Applying /\ Top.op \in {"Add", "Subtract", "Multiply", "Divide"}
           /\ Top.left_val.kind = "integer" /\ ctl.val.kind = "integer"
           /\ (Top.op = "Divide" => ctl.val.i # 0)) =>
         C18_IntegerOrError(Applied)
    /\ (Received("Unary") /\ Top.op = "Minus" /\ ctl.val.kind = "integer") =>
         C18_IntegerOrError(apply_unary_operator(Top.op, ctl.val, overflow_checks))
    /\ result.tag # "panic"

====
